---------------------------- MODULE Spec2Model ----------------------------
(***************************************************************************)
(* Model of the NPC dialogue service (src/app/api.py): the response        *)
(* extraction cascade extract_character_response and the /chat,            *)
(* /clear-history and /config/character/load handlers.                     *)
(*                                                                         *)
(* Text is a sequence of tokens.  Every token stands for one fixed piece   *)
(* of text (TokText below gives it); the pieces are chosen so that none of *)
(* the patterns the code looks for can start in one token and end in       *)
(* another, which makes the token-level operators below compute exactly    *)
(* what the regular expressions and string methods of the code compute on  *)
(* the concatenated text.                                                  *)
(***************************************************************************)
EXTENDS Integers, Sequences, FiniteSets, TLC

(***************************************************************************)
(* Tokens                                                                  *)
(***************************************************************************)
Token ==
    { "NL", "SP",
      "OPEN", "CLOSE", "TAG", "SPECIAL",
      "HELLO", "HI", "W5", "W6", "LOWER", "L994", "L494",
      "HAMR", "LMT", "OKLETS",
      "OKNEED", "TUA", "MWRAP", "SOANS",
      "MSURE", "SAFE",
      "WNR", "TUS", "TUSLOW",
      "DOTS", "DOT", "IM",
      "SHE", "QUOTE",
      "PAREN", "QQQ",
      "LT", "GT" }

\* The text each token stands for (L994 stands for the letter x 994 times,
\* L494 for the letter x 494 times).
TokText(t) ==
    CASE t = "NL"      -> "\n"
      [] t = "SP"      -> " "
      [] t = "OPEN"    -> "<response>"
      [] t = "CLOSE"   -> "</response>"
      [] t = "TAG"     -> "<b>"
      [] t = "SPECIAL" -> "<|eot|>"
      [] t = "HELLO"   -> "Hello there."
      [] t = "HI"      -> "Hi."
      [] t = "W5"      -> "Hello"
      [] t = "W6"      -> "Hello!"
      [] t = "LOWER"   -> "hello, my friend."
      [] t = "L994"    -> "x * 994"
      [] t = "L494"    -> "x * 494"
      [] t = "TUSLOW"  -> "the user says"
      [] t = "HAMR"    -> "Here are my reasoning"
      [] t = "LMT"     -> "Let me think"
      [] t = "OKLETS"  -> "Okay, let's see."
      [] t = "OKNEED"  -> "Okay, I need to answer"
      [] t = "TUA"     -> "The user asks:"
      [] t = "MWRAP"   -> "Must wrap it"
      [] t = "SOANS"   -> "So answer:"
      [] t = "MSURE"   -> "Make sure"
      [] t = "SAFE"    -> "it's safe"
      [] t = "WNR"     -> "We need to respond"
      [] t = "TUS"     -> "The user says"
      [] t = "DOTS"    -> "..."
      [] t = "DOT"     -> "."
      [] t = "IM"      -> "I'm ..."
      [] t = "LT"      -> "<"
      [] t = "GT"      -> ">"
      [] t = "SHE"     -> "She might say:"
      [] t = "QUOTE"   -> "\""
      [] t = "PAREN"   -> "(add your response below)"
      [] t = "QQQ"     -> "???"

\* len() of the token's text, in characters.
TokLen(t) ==
    CASE t \in {"NL", "SP", "DOT", "QUOTE", "LT", "GT"}  -> 1
      [] t \in {"HI", "DOTS", "QQQ", "TAG"}  -> 3
      [] t = "W5"      -> 5
      [] t = "W6"      -> 6
      [] t \in {"SPECIAL", "IM"} -> 7
      [] t \in {"MSURE", "SAFE"} -> 9
      [] t \in {"OPEN", "SOANS"} -> 10
      [] t = "CLOSE"   -> 11
      [] t \in {"HELLO", "LMT", "MWRAP"} -> 12
      [] t \in {"TUS", "TUSLOW"} -> 13
      [] t \in {"TUA", "SHE"} -> 14
      [] t = "OKLETS"  -> 16
      [] t = "LOWER"   -> 17
      [] t = "WNR"     -> 18
      [] t = "HAMR"    -> 21
      [] t = "OKNEED"  -> 22
      [] t = "PAREN"   -> 25
      [] t = "L994"    -> 994
      [] t = "L494"    -> 494

\* str.isspace() of the token: "\n" and " ".
IsWs(t) == t \in {"NL", "SP"}

\* The tokens that are a tag by themselves: a '<', one or more non-'>', a '>'.
IsTag(t) == t \in {"OPEN", "CLOSE", "TAG", "SPECIAL"}

\* The token's text holds a '>': a tag (at its end) and the bare ">".
HasGt(t) == IsTag(t) \/ t = "GT"

\* The tokens re.sub(r'<\|[^|]+\|>', ...) deletes.
IsSpecialToken(t) == t = "SPECIAL"

(***************************************************************************)
(* String helpers (Python's str methods on token sequences)                *)
(***************************************************************************)
RECURSIVE CharLen(_)
CharLen(s) == IF s = <<>> THEN 0 ELSE TokLen(Head(s)) + CharLen(Tail(s))

MinOf(S) == CHOOSE i \in S : \A j \in S : i <= j
MaxOf(S) == CHOOSE i \in S : \A j \in S : i >= j

\* s[i:] of Python, 1-based: the tokens from index i on.
From(s, i) == SubSeq(s, i, Len(s))

\* s.strip()
Strip(s) ==
    LET I == {i \in 1..Len(s) : ~IsWs(s[i])}
    IN  IF I = {} THEN <<>> ELSE SubSeq(s, MinOf(I), MaxOf(I))

\* ln.rstrip() of one line (a line holds no "\n")
RStrip(s) ==
    LET I == {i \in 1..Len(s) : ~IsWs(s[i])}
    IN  IF I = {} THEN <<>> ELSE SubSeq(s, 1, MaxOf(I))

\* s.split('\n')
RECURSIVE SplitNL(_)
SplitNL(s) ==
    LET N == {i \in 1..Len(s) : s[i] = "NL"}
    IN  IF N = {} THEN <<s>>
        ELSE <<SubSeq(s, 1, MinOf(N) - 1)>> \o SplitNL(From(s, MinOf(N) + 1))

\* s.splitlines(): no lines for the empty string, no empty last line after a
\* final newline.
SplitLines(s) ==
    IF s = <<>> THEN <<>>
    ELSE LET p == SplitNL(s)
         IN  IF p[Len(p)] = <<>> THEN SubSeq(p, 1, Len(p) - 1) ELSE p

\* "\n".join(lines)
RECURSIVE JoinNL(_)
JoinNL(lines) ==
    IF lines = <<>> THEN <<>>
    ELSE IF Len(lines) = 1 THEN lines[1]
    ELSE lines[1] \o <<"NL">> \o JoinNL(Tail(lines))

\* The tokens of s at the indices in K, in order.
RECURSIVE PickIdx(_, _, _)
PickIdx(s, K, i) ==
    IF i > Len(s) THEN <<>>
    ELSE (IF i \in K THEN <<s[i]>> ELSE <<>>) \o PickIdx(s, K, i + 1)

\* re.sub(r'<[^>]+>', '', s) with the tags taken token by token only: a bare
\* "<" and what follows it up to the next '>' stay.
StripTagsWholeTokens(s) == SelectSeq(s, LAMBDA t : ~IsTag(t))

\* re.sub(r'<[^>]+>', '', s): the leftmost match is deleted and the scan goes on
\* after it.  A match starts at a '<' (a bare "<" or the start of a tag token)
\* and runs to the first '>' after it, with at least one character between:
\* a tag token by itself, or a bare "<" up to the next token holding '>',
\* unless that token is a bare ">" right after the "<".
RECURSIVE StripTags(_)
StripTags(s) ==
    LET n == Len(s)
        Close(i) == LET K == {j \in i + 1..n : HasGt(s[j])}
                    IN  IF K = {} THEN 0 ELSE MinOf(K)
        MatchEnd(i) ==
            IF IsTag(s[i]) THEN i
            ELSE IF /\ s[i] = "LT"
                    /\ Close(i) # 0
                    /\ ~(Close(i) = i + 1 /\ s[i + 1] = "GT")
                 THEN Close(i)
                 ELSE 0
        S == {i \in 1..n : MatchEnd(i) # 0}
    IN  IF S = {} THEN s
        ELSE SubSeq(s, 1, MinOf(S) - 1)
             \o StripTags(From(s, MatchEnd(MinOf(S)) + 1))

\* re.sub(r'<\|[^|]+\|>', '', s)
StripSpecial(s) == SelectSeq(s, LAMBDA t : ~IsSpecialToken(t))

\* re.sub(r'M.*?$', '', s, flags=IGNORECASE|MULTILINE|DOTALL) for a marker M:
\* the lazy .*? stops at the first place $ matches, which under MULTILINE is the
\* end of the marker's line, so each line loses its tail from its first marker.
CutLineTail(s, markers) ==
    PickIdx(s,
            {i \in 1..Len(s) :
                ~ \E j \in 1..i : /\ s[j] \in markers
                                  /\ \A k \in j..i : s[k] # "NL"},
            1)

(***************************************************************************)
(* extract_character_response, steps 1 to 4: what is removed before the    *)
(* cascade looks for a response                                            *)
(***************************************************************************)
\* Line 626: re.sub(r'^\s*\([^)]*response[^)]*\)\s*\n+', '', text): at the very
\* start of the text, a parenthetical holding the word response, then white
\* space up to and including the last newline of that white space.
StripPreface(s) ==
    LET I == {i \in 1..Len(s) : ~IsWs(s[i])}
    IN  IF I = {} \/ s[MinOf(I)] # "PAREN" THEN s
        ELSE LET p == MinOf(I)
                 N == {j \in p + 1..Len(s) :
                          /\ s[j] = "NL"
                          /\ \A k \in p + 1..j : IsWs(s[k])}
             IN  IF N = {} THEN s ELSE From(s, MaxOf(N) + 1)

\* Lines 629-633: the five reasoning patterns, applied in the code's order.
StripReasoning(s) ==
    LET t1 == CutLineTail(s, {"HAMR"})       \* Here are my reasoning
        t2 == CutLineTail(t1, {})            \* Here Are My Reasonings
        t3 == CutLineTail(t2, {"LMT"})       \* Let me think
        t4 == CutLineTail(t3, {"OKLETS"})    \* Okay, let's see.
    IN  CutLineTail(t4, {"OKLETS"})          \* Okay, let's ...

\* One of lines 635-638: re.sub(r'^\s*D.*?\n+', '', s, IGNORECASE|MULTILINE) for
\* a directive D.  ^ matches at every line start, \s* runs over blank lines and
\* spaces, .*? stays on the directive's line and \n+ takes every newline that
\* follows it; without a newline after the directive there is no match.  re.sub
\* takes the leftmost match and goes on after it.
RECURSIVE DropDirective(_, _)
DropDirective(s, d) ==
    LET n == Len(s)
        FirstTok(p) == LET I == {i \in p..n : ~IsWs(s[i])}
                       IN  IF I = {} THEN 0 ELSE MinOf(I)
        P == {p \in 1..n :
                /\ (p = 1 \/ s[p - 1] = "NL")
                /\ FirstTok(p) # 0
                /\ s[FirstTok(p)] \in d
                /\ \E r \in FirstTok(p) + 1..n : s[r] = "NL"}
    IN  IF P = {} THEN s
        ELSE LET p == MinOf(P)
                 q == FirstTok(p)
                 r == MinOf({i \in q + 1..n : s[i] = "NL"})
                 e == MaxOf({i \in r..n : \A k \in r..i : s[k] = "NL"})
             IN  SubSeq(s, 1, p - 1) \o DropDirective(From(s, e + 1), d)

\* Lines 635-638 in the code's order.
StripDirectives(s) ==
    LET t1 == DropDirective(s, {"OKNEED"})   \* Okay, i need to ...
        t2 == DropDirective(t1, {"TUA"})     \* The user asks:
        t3 == DropDirective(t2, {"MWRAP"})   \* Must wrap ...
    IN  DropDirective(t3, {"SOANS"})         \* So answer:

\* Lines 600-616: is this line (already stripped) a checklist/meta line?
\* raw.lstrip(".-*(bullet)> ") drops the leading dots, '>' and spaces; the line is
\* meta when what is left starts with one of the listed phrases or holds
\* "disallowed content", "exactly one block" or "it's safe".
IsMetaLine(raw) ==
    LET I   == {i \in 1..Len(raw) : raw[i] \notin {"DOT", "DOTS", "SP", "GT"}}
        low == IF I = {} THEN <<>> ELSE Strip(From(raw, MinOf(I)))
    IN  /\ low # <<>>
        /\ \/ low[1] \in {"MSURE", "MWRAP", "SOANS", "TUA"}
           \/ \E i \in 1..Len(low) : low[i] = "SAFE"

\* Lines 585-622: _strip_leading_meta_lines.
DropLeadingOnce(lines) ==
    IF lines = <<>> THEN <<>>
    ELSE LET raw == Strip(lines[1])
         IN  IF raw = <<>> \/ IsMetaLine(raw) \/ raw = <<"DOT">>
             THEN Tail(lines)
             ELSE lines
RECURSIVE DropLeading(_)
DropLeading(lines) ==
    IF lines = <<>> THEN <<>>
    ELSE LET raw == Strip(lines[1])
         IN  IF raw = <<>> \/ IsMetaLine(raw) \/ raw = <<"DOT">>
             THEN DropLeading(Tail(lines))
             ELSE lines

strip_leading_meta_lines(s) ==
    IF s = <<>> THEN s
    ELSE LET lines == [i \in 1..Len(SplitLines(s)) |-> RStrip(SplitLines(s)[i])]
         IN  Strip(JoinNL(DropLeading(lines)))

\* Lines 626-639: the text the cascade works on.
Prepared(text) ==
    strip_leading_meta_lines(StripDirectives(StripReasoning(StripPreface(text))))

(***************************************************************************)
(* extract_character_response, steps 5 to 9: the cascade                   *)
(***************************************************************************)
\* Line 642: re.findall(r'<response>(.*?)</response>', text, DOTALL|IGNORECASE):
\* from the first opening tag to the nearest closing tag after it, then on.
RECURSIVE response_blocks(_)
response_blocks(s) ==
    LET O == {i \in 1..Len(s) : s[i] = "OPEN"}
    IN  IF O = {} THEN <<>>
        ELSE LET C == {j \in MinOf(O) + 1..Len(s) : s[j] = "CLOSE"}
             IN  IF C = {} THEN <<>>
                 ELSE <<SubSeq(s, MinOf(O) + 1, MinOf(C) - 1)>>
                      \o response_blocks(From(s, MinOf(C) + 1))

\* Line 647: b in {"...", "(ellipsis)"} or "i'm ..." in b.lower()
is_placeholder(b) ==
    \/ /\ CharLen(b) = 3
       /\ \A i \in 1..Len(b) : b[i] \in {"DOT", "DOTS"}
    \/ \E i \in 1..Len(b) : b[i] = "IM"

\* Lines 648-658: any(m in b.lower() for m in meta_markers)
has_meta(b) == \E i \in 1..Len(b) : b[i] \in {"MSURE", "SAFE"}

\* Lines 645-660: _score, a tuple compared lexicographically.
Score(block) ==
    LET b == Strip(block)
    IN  << IF is_placeholder(b) THEN 0 ELSE 1,
           IF has_meta(b) THEN 0 ELSE 1,
           CharLen(b) >>

ScoreLess(x, y) ==
    \/ x[1] < y[1]
    \/ x[1] = y[1] /\ x[2] < y[2]
    \/ x[1] = y[1] /\ x[2] = y[2] /\ x[3] < y[3]

\* Line 662: max(response_blocks, key=_score) is the first block that no other
\* block beats.
BestBlock(blocks) ==
    LET sc == [i \in 1..Len(blocks) |-> Score(blocks[i])]
        M  == {i \in 1..Len(blocks) :
                  \A j \in 1..Len(blocks) : ~ScoreLess(sc[i], sc[j])}
    IN  blocks[MinOf(M)]

\* Line 643: if response_blocks:
HasBlocksAlways(blocks) == TRUE
HasBlocks(blocks) == blocks # <<>>

\* Lines 662-667
FromBlocks(blocks) ==
    strip_leading_meta_lines(StripSpecial(StripTags(Strip(BestBlock(blocks)))))

\* Line 670: re.search(r'<response>\s*([\s\S]+)$', text, IGNORECASE): the first
\* opening tag with at least one character after it; group 1 stripped (line 672)
\* is the stripped text after that tag.  0 when there is no match.
OpenTagAt(s) ==
    LET O == {i \in 1..Len(s) : s[i] = "OPEN" /\ i < Len(s)}
    IN  IF O = {} THEN 0 ELSE MinOf(O)

\* Lines 672-676
FromOpenTag(s) ==
    strip_leading_meta_lines(
        StripSpecial(StripTags(Strip(From(s, OpenTagAt(s) + 1)))))

\* The last character of the token's text is a word character, so that \b does
\* not match between it and a following letter.
EndsWord(t) ==
    t \in {"W5", "L994", "L494", "HAMR", "LMT", "OKNEED", "MWRAP", "MSURE",
           "SAFE", "WNR", "TUS", "TUSLOW"}

\* Line 679: re.search(r'(?is)\b(?:she|he|they)\s+might\s+say:\s*["(left quote)](.+?)["(right quote)]'):
\* the index pair <<opening quote, closing quote>> of the leftmost match, the
\* lazy (.+?) taking at least one character; <<0, 0>> when there is no match.
DraftedAt(s) ==
    LET n == Len(s)
        Quote(q) == LET I == {i \in q + 1..n : ~IsWs(s[i])}
                    IN  IF I # {} /\ s[MinOf(I)] = "QUOTE" THEN MinOf(I) ELSE 0
        Closing(o) == {c \in o + 2..n : s[c] = "QUOTE"}
        Q == {q \in 1..n :
                /\ s[q] = "SHE"
                /\ (q = 1 \/ ~EndsWord(s[q - 1]))
                /\ Quote(q) # 0
                /\ Closing(Quote(q)) # {}}
    IN  IF Q = {} THEN <<0, 0>>
        ELSE <<Quote(MinOf(Q)), MinOf(Closing(Quote(MinOf(Q))))>>

\* Lines 681-684
FromDraft(s) ==
    LET m == DraftedAt(s)
    IN  Strip(StripSpecial(StripTags(Strip(SubSeq(s, m[1] + 1, m[2] - 1)))))

\* Line 692: the line holds one of "here are", "reasoning", "let me think",
\* "we need", "the user", "the system", "i need to", "i have to", "i must".
LooksLikeReasoning(line) ==
    \E i \in 1..Len(line) :
        line[i] \in {"HAMR", "LMT", "WNR", "TUS", "TUSLOW", "TUA", "OKNEED"}

\* Line 694: line[0].isupper() or line.startswith(('"', "'"))
StartsLikeDialogue(line) ==
    line[1] \in {"HELLO", "HI", "W5", "W6", "HAMR", "LMT", "OKLETS", "OKNEED",
                 "TUA", "MWRAP", "SOANS", "MSURE", "WNR", "TUS", "IM", "SHE",
                 "QUOTE"}

\* Lines 689-694: the line is taken by the first-substantial-line step.
IsSubstantial(line) ==
    /\ line # <<>>
    /\ CharLen(line) > 10
    /\ ~LooksLikeReasoning(line)
    /\ StartsLikeDialogue(line)

\* Lines 687-698: the stripped lines, in order, and the first one taken.
SubstantialLines(s) ==
    LET lines == SplitNL(s)
    IN  {i \in 1..Len(lines) : IsSubstantial(Strip(lines[i]))}

FromFirstLineUnstripped(s) ==
    LET lines == SplitNL(s)
    IN  StripSpecial(StripTags(lines[MinOf(SubstantialLines(s))]))
FromFirstLine(s) ==
    LET lines == SplitNL(s)
    IN  Strip(StripSpecial(StripTags(Strip(lines[MinOf(SubstantialLines(s))]))))

\* Lines 701-710: the last resort.  re.sub(r'\?{3,}.*$', '', .., MULTILINE) cuts
\* each line at a run of three question marks.  No text that has been through
\* line 631 still holds "let me think", so line 707 (Okay let me think.*$) has
\* nothing to cut.
LastResort(s) ==
    LET c1 == Strip(StripSpecial(StripTags(s)))
        c2 == CutLineTail(c1, {"QQQ"})
        c3 == CutLineTail(c2, {})
    IN  Strip(strip_leading_meta_lines(c3))

\* Lines 581-710.  step is the step of the cascade that returned (5 tagged
\* block, 6 unterminated tag, 7 drafted dialogue, 8 first substantial line,
\* 9 last resort); raised is TRUE when the call ends in an exception
\* (max() of an empty list at line 662) instead of returning.
Cascade(t, blocks) ==
    IF HasBlocks(blocks)
    THEN IF blocks = <<>>
         THEN [raised |-> TRUE, step |-> 5, out |-> <<>>]
         ELSE [raised |-> FALSE, step |-> 5, out |-> FromBlocks(blocks)]
    ELSE IF OpenTagAt(t) # 0
    THEN [raised |-> FALSE, step |-> 6, out |-> FromOpenTag(t)]
    ELSE IF DraftedAt(t) # <<0, 0>>
    THEN [raised |-> FALSE, step |-> 7, out |-> FromDraft(t)]
    ELSE IF SubstantialLines(t) # {}
    THEN [raised |-> FALSE, step |-> 8, out |-> FromFirstLine(t)]
    ELSE [raised |-> FALSE, step |-> 9, out |-> LastResort(t)]

\* Lines 642-710 over the text that steps 1-4 left.
ExtractPrepared(t) == Cascade(t, response_blocks(t))

\* Lines 581-710: the whole function.
ExtractRun(text) == ExtractPrepared(Prepared(text))

extract_character_response(text) == ExtractRun(text).out

(***************************************************************************)
(* The service state and POST /chat                                        *)
(***************************************************************************)
VARIABLES
    text,               \* the argument of a direct extract_character_response call
    res,                \* what that call did: [called, raised, step, out]
    character_context,  \* the active character (module global, lines 65, 87-89)
    character_filename, \* the file it was loaded from, NoFilename for an inline one
    environment_context,  \* the active environment (module global, lines 64, 76-84)
    environment_filename, \* the file it was loaded from, NoFilename for an inline one
    store,              \* the memory store: collection name -> documents, oldest first
    reply,              \* the last request served and what it did
    assets,             \* the assets directory, its temporary-upload metadata, the clock
    bulk,               \* one run of the bulk generation pipeline (src/app/generation.py)
    turn,               \* the /chat coroutine on the event loop, step by step, and
                        \* the load requests waiting for the loop
    json_dir            \* the JSONData directory: file name -> what the file holds

vars == <<text, res, character_context, character_filename,
         environment_context, environment_filename, store, reply, assets, bulk,
         turn, json_dir>>

\* Line 438: the keys _looks_like_character requires.
RequiredCharacterKeys ==
    {"name", "age", "gender", "personalities", "appearance", "background",
     "skills", "secrets"}

CharacterNames == {"Kaiya Starling", "Bob"}

\* The kinds of non-empty JSON object (with string keys) the prompt assembly
\* tells apart by the keys it reads with .get(key, default): one that holds
\* every key read from it, one that holds none of them, one that holds all
\* but "height", one that holds all but "description".
ObjectKinds ==
    {"object", "object_other", "object_no_height", "object_no_description"}

\* The kinds of JSON value the prompt assembly tells apart: the non-empty
\* objects, {}, null, [], a non-empty list of strings, a non-empty string, a
\* non-zero number.
ValueKinds ==
    ObjectKinds \cup {"empty_object", "null", "empty_list", "list", "text", "number"}

\* The character keys whose values the prompt assembly calls methods on
\* (lines 1147-1151); name, age and gender are only formatted.
CharacterFields == {"appearance", "background", "personalities", "skills", "secrets"}

\* The kinds the values of a character file of JSONData have.
WellFormedCharacterKinds ==
    [appearance |-> "object", background |-> "object", personalities |-> "list",
     skills |-> "list", secrets |-> "list"]

\* A character object: the keys it holds, its name (when it holds one) and
\* the kind of the value under each key of CharacterFields it holds.
CharacterOf(n, kinds) == [keys |-> RequiredCharacterKeys, name |-> n, kinds |-> kinds]
Character(n) == CharacterOf(n, WellFormedCharacterKinds)

\* The empty JSON object: falsy in Python.
NoCharacter == [keys |-> {}, name |-> "", kinds |-> WellFormedCharacterKinds]

\* A JSON object with some keys but no "name".
NamelessCharacter == [keys |-> {"age"}, name |-> "", kinds |-> WellFormedCharacterKinds]

\* Line 443: the keys _looks_like_environment requires.
RequiredEnvironmentKeys == {"era", "time_period", "detail", "guardrails"}

\* The environment keys whose values the prompt assembly calls methods on
\* (lines 1130, 1142); era and time_period are only formatted.
EnvironmentFields == {"detail", "guardrails"}

WellFormedEnvironmentKinds == [detail |-> "object", guardrails |-> "object"]

\* An environment object: the keys it holds and the kind of the value under
\* each key of EnvironmentFields it holds.
EnvironmentOf(keys, kinds) == [keys |-> keys, kinds |-> kinds]
Environment == EnvironmentOf(RequiredEnvironmentKeys, WellFormedEnvironmentKinds)

\* Lines 440-444: _looks_like_environment
looks_like_environment(obj) == RequiredEnvironmentKeys \subseteq obj.keys

\* Lines 433-439: _looks_like_character
looks_like_character(obj) == RequiredCharacterKeys \subseteq obj.keys

\* Lines 1089, 1321: character_name.replace(" ", "_")
CollectionName(n) == IF n = "Kaiya Starling" THEN "Kaiya_Starling" ELSE n

Collections == {CollectionName(n) : n \in CharacterNames}

\* Lines 1107-1115 and 1284-1292: the text holds one of "The user says",
\* "We need to respond", "Here are my reasoning", "Thus final answer",
\* "[BEGIN FINAL RESPONSE]", "Your output:", "The system expects" (case-sensitive).
HasReasoningPattern(doc) ==
    \E i \in 1..Len(doc) : doc[i] \in {"TUS", "WNR", "HAMR"}

\* Line 1079: if not character_context
CharacterMissing(cc) == cc.keys = {}

\* Lines 1079-1082: the guard and character_context["name"], which raises
\* KeyError (an unhandled 500) for an object without that key.
ChatCharacterNameLenient(cc) ==
    [ok |-> TRUE, detail |-> <<>>,
     name |-> IF "name" \in cc.keys THEN cc.name ELSE "Kaiya Starling"]
ChatCharacterName(cc) ==
    IF CharacterMissing(cc)
    THEN [ok |-> FALSE, detail |-> <<"Character context not loaded.">>, name |-> ""]
    ELSE IF "name" \notin cc.keys
    THEN [ok |-> FALSE, detail |-> <<"Internal Server Error">>, name |-> ""]
    ELSE [ok |-> TRUE, detail |-> <<>>, name |-> cc.name]

\* Lines 1084-1098: the memory query.  chroma says how far the memory store
\* gets: "no_client" (get_chroma_client raises), "no_collection"
\* (get_or_create_collection raises), "query_fails", or "ok".  The except clause
\* resets results only: a collection handle obtained before the failure stays.
MemoryQueryUnguarded(name, message, chroma, st) ==
    [calls |->
        CASE chroma = "no_client"     -> <<"get_chroma_client">>
          [] chroma = "no_collection" -> <<"get_chroma_client", "get_or_create_collection">>
          [] OTHER -> <<"get_chroma_client", "get_or_create_collection", "query">>,
     collection |->
        IF chroma \in {"no_client", "no_collection"} THEN "None"
        ELSE CollectionName(name),
     failed  |-> chroma # "ok",
     raised  |-> chroma # "ok",
     results |->
        IF chroma = "ok" THEN SubSeq(st[CollectionName(name)], 1,
                                     IF Len(st[CollectionName(name)]) < 5
                                     THEN Len(st[CollectionName(name)]) ELSE 5)
        ELSE <<>>]
MemoryQuery(name, message, chroma, st) ==
    [calls |->
        CASE chroma = "no_client"     -> <<"get_chroma_client">>
          [] chroma = "no_collection" -> <<"get_chroma_client", "get_or_create_collection">>
          [] OTHER -> <<"get_chroma_client", "get_or_create_collection", "query">>,
     collection |->
        IF chroma \in {"no_client", "no_collection"} THEN "None"
        ELSE CollectionName(name),
     failed  |-> chroma # "ok",
     raised  |-> FALSE,
     results |->
        IF chroma = "ok" THEN SubSeq(st[CollectionName(name)], 1,
                                     IF Len(st[CollectionName(name)]) < 5
                                     THEN Len(st[CollectionName(name)]) ELSE 5)
        ELSE <<>>]

\* Lines 1100-1127: the memory context that goes into the prompt, the kept
\* documents joined by newlines.
MemoryContextNoCap(results) ==
    JoinNL(SelectSeq(results, LAMBDA doc : /\ doc # <<>>
                                           /\ ~HasReasoningPattern(doc)
                                           /\ ~(CharLen(doc) > 500)))
MemoryContext(results) ==
    LET filtered == SelectSeq(results,
                       LAMBDA doc : /\ doc # <<>>
                                    /\ ~HasReasoningPattern(doc)
                                    /\ ~(CharLen(doc) > 500))
    IN  JoinNL(SubSeq(filtered, 1, IF Len(filtered) < 2 THEN Len(filtered) ELSE 2))

\* Lines 1239-1260 and 1274-1279: the provider call.  prov.kind is "no_key"
\* (get_together_api_key raises before anything is sent), "transport_error"
\* (requests.post raises), "http_error" (raise_for_status raises), "bad_shape"
\* (the JSON has no choices[0].text) or "text" (prov.text is the completion).
ProviderCallRetry(prov) ==
    [calls  |-> IF prov.kind = "no_key" THEN <<>>
                ELSE IF prov.kind = "text" THEN <<"requests.post">>
                ELSE <<"requests.post", "requests.post">>,
     failed |-> prov.kind # "text",
     raw    |-> IF prov.kind = "text" THEN Strip(prov.text) ELSE <<>>]
ProviderCall(prov) ==
    [calls  |-> IF prov.kind = "no_key" THEN <<>> ELSE <<"requests.post">>,
     failed |-> prov.kind # "text",
     raw    |-> IF prov.kind = "text" THEN Strip(prov.text) ELSE <<>>]

\* Line 1269 and 1271: not output_content or len(output_content) < 5
TooShortOffByOne(out) == out = <<>> \/ CharLen(out) <= 5
TooShort(out) == out = <<>> \/ CharLen(out) < 5

\* Lines 1266-1272: the extraction, run again when it comes back short, and the
\* raw text as the last fallback.  raised: extraction ended in an exception.
ChatFallbackKeepsShort(raw, first, second) ==
    IF first.raised THEN [raised |-> TRUE, out |-> <<>>]
    ELSE [raised |-> FALSE, out |-> first.out]
ChatFallback(raw, first, second) ==
    IF first.raised THEN [raised |-> TRUE, out |-> <<>>]
    ELSE IF ~TooShort(first.out) THEN [raised |-> FALSE, out |-> first.out]
    ELSE IF second.raised THEN [raised |-> TRUE, out |-> <<>>]
    ELSE IF ~TooShort(second.out) THEN [raised |-> FALSE, out |-> second.out]
    ELSE [raised |-> FALSE, out |-> Strip(raw)]

ChatExtract(raw) == ChatFallback(raw, ExtractRun(raw), ExtractRun(raw))

\* Lines 1282-1296: the response is to be stored.
ShouldStoreNoCeiling(out, collection) ==
    /\ out # <<>>
    /\ CharLen(out) > 5
    /\ ~HasReasoningPattern(out)
    /\ collection # "None"
ShouldStore(out, collection) ==
    /\ out # <<>>
    /\ CharLen(out) > 5
    /\ ~HasReasoningPattern(out)
    /\ CharLen(out) < 1000
    /\ collection # "None"

\* obj.get(key, default): the kind of the value, "missing" when the object
\* lacks the key (the default, an empty object or list, is then used).
KindOf(obj, key) == IF key \in obj.keys THEN obj.kinds[key] ELSE "missing"

\* bool(value) is False.
Falsy(kind) == kind \in {"missing", "empty_object", "null", "empty_list"}

\* The value has .get and .items.
IsMapping(kind) == kind \in ObjectKinds \cup {"missing", "empty_object"}

\* ', '.join(value) works: an iterable of strings (a list of strings, a
\* string, an object with string keys).
Joinable(kind) ==
    kind \in ObjectKinds \cup {"missing", "empty_object", "empty_list", "list", "text"}

\* Lines 1130-1139: env_details.get(...) on whatever "detail" holds.
EnvTextRaises(env) == ~IsMapping(KindOf(env, "detail"))

\* Lines 1142-1143: guardrails.items() if guardrails.
GuardrailsRaises(env) ==
    /\ ~Falsy(KindOf(env, "guardrails"))
    /\ ~IsMapping(KindOf(env, "guardrails"))

\* Lines 1146-1174: value or {} then .get(...), value or [] then ', '.join.
CharDescRaises(cc) ==
    \/ \E f \in {"appearance", "background"} :
          ~Falsy(KindOf(cc, f)) /\ ~IsMapping(KindOf(cc, f))
    \/ \E f \in {"personalities", "skills", "secrets"} :
          ~Falsy(KindOf(cc, f)) /\ ~Joinable(KindOf(cc, f))

\* Line 1198: ', '.join(character_context.get('personalities', [])), with
\* no "or []".
SpeechPatternRaises(cc) == ~Joinable(KindOf(cc, "personalities"))

\* Lines 1129-1223: the assembly raises AttributeError or TypeError.
PromptRaises(cc, env) ==
    \/ EnvTextRaises(env)
    \/ GuardrailsRaises(env)
    \/ CharDescRaises(cc)
    \/ SpeechPatternRaises(cc)

\* The object of this kind holds the key.
Holds(kind, key) ==
    \/ kind = "object"
    \/ kind = "object_no_height" /\ key # "height"
    \/ kind = "object_no_description" /\ key # "description"

\* What a section of the profile shows: "value" when it shows what the
\* object holds, otherwise the placeholder of that line.
\* obj.get(key, placeholder) of lines 1135-1138, 1157-1161 and 1167-1169: the
\* value under the key when the object holds it.
RenderKey(kind, key, placeholder) ==
    IF Holds(kind, key) THEN "value" ELSE placeholder
\* Line 1143: the items of guardrails joined, "" for a falsy one.
RenderMapping(kind, placeholder) ==
    IF kind \in ObjectKinds THEN "value" ELSE placeholder
RenderList(kind, placeholder) == IF Falsy(kind) THEN placeholder ELSE "value"

\* Lines 1131-1174: the sections of env_text, guardrails_text and char_desc.
Profile(cc, env) ==
    [environment   |-> RenderKey(KindOf(env, "detail"), "Environment", "Not specified"),
     guardrails    |-> RenderMapping(KindOf(env, "guardrails"), ""),
     appearance    |-> RenderKey(KindOf(cc, "appearance"), "description", "Not specified"),
     height        |-> RenderKey(KindOf(cc, "appearance"), "height", "Unknown"),
     personalities |-> RenderList(KindOf(cc, "personalities"), "Not specified"),
     hometown      |-> RenderKey(KindOf(cc, "background"), "hometown", "Unknown"),
     skills        |-> RenderList(KindOf(cc, "skills"), "Not specified"),
     secrets       |-> RenderList(KindOf(cc, "secrets"), "None")]

NoProfile ==
    [environment |-> "", guardrails |-> "", appearance |-> "", height |-> "",
     personalities |-> "", hometown |-> "", skills |-> "", secrets |-> ""]

\* Line 1230: f"Player: {entry[0]}\n{character_name}: {entry[1]}\n\n"
RenderTurn(entry, name) ==
    <<"Player: ", entry[1], "\n", name, ": ", entry[2], "\n\n">>

RECURSIVE RenderTurns(_, _)
RenderTurns(entries, name) ==
    IF entries = <<>> THEN <<>>
    ELSE RenderTurn(Head(entries), name) \o RenderTurns(Tail(entries), name)

\* Lines 1226-1230: the conversation history of the prompt.
ConversationHistoryOldest(history, name) ==
    RenderTurns(SelectSeq(SubSeq(history, 1, IF Len(history) < 10 THEN Len(history) ELSE 10),
                          LAMBDA entry : Len(entry) >= 2),
                name)
ConversationHistory(history, name) ==
    RenderTurns(SelectSeq(SubSeq(history, IF Len(history) > 10 THEN Len(history) - 9 ELSE 1,
                                 Len(history)),
                          LAMBDA entry : Len(entry) >= 2),
                name)

\* Lines 1129-1237: the prompt, or the exception its assembly ends in.
Prompt(cc, env, request, name) ==
    [raised  |-> PromptRaises(cc, env),
     profile |-> Profile(cc, env),
     conversation_history |-> ConversationHistory(request.history, name)]

\* What a request that did nothing yet looks like.
NoReply ==
    [op |-> "none", status |-> 0, detail |-> <<>>, response |-> <<>>,
     raw |-> <<>>, calls |-> <<>>, added |-> <<>>, stored |-> FALSE,
     name |-> "", results |-> <<>>, memory_context |-> <<>>,
     history |-> <<>>, prompt_built |-> FALSE, profile |-> NoProfile,
     asset_id |-> 0, filename |-> <<>>,
     conversation_history |-> <<>>,
     success |-> FALSE, deleted |-> 0,
     chroma |-> "none", provider |-> "none"]

\* Lines 1264-1308: extraction outcome, persistence gate and the response.
\* The try/except of lines 1297-1304 keeps a failing collection.add from
\* changing the reply.
ChatPersistAddRaises(afterProv, x, collection, addOk) ==
    IF x.raised
    THEN [afterProv EXCEPT !.status = 500,
                           !.detail = <<"Error generating response", "exception">>]
    ELSE IF ShouldStore(x.out, collection)
    THEN IF addOk
         THEN [afterProv EXCEPT !.status = 200, !.response = x.out,
                                !.calls = @ \o <<"add">>, !.added = <<x.out>>,
                                !.stored = TRUE]
         ELSE [afterProv EXCEPT !.status = 500,
                                !.detail = <<"Internal Server Error">>,
                                !.calls = @ \o <<"add">>, !.added = <<x.out>>]
    ELSE [afterProv EXCEPT !.status = 200, !.response = x.out]
ChatPersist(afterProv, x, collection, addOk) ==
    IF x.raised
    THEN [afterProv EXCEPT !.status = 500,
                           !.detail = <<"Error generating response", "exception">>]
    ELSE IF ShouldStore(x.out, collection)
    THEN [afterProv EXCEPT !.status = 200, !.response = x.out,
                           !.calls = @ \o <<"add">>, !.added = <<x.out>>,
                           !.stored = addOk]
    ELSE [afterProv EXCEPT !.status = 200, !.response = x.out]

\* Lines 1239-1279: the provider call; any exception is a 500.
ChatGenerate(afterMem, p, prov, collection, addOk) ==
    IF p.failed
    THEN [afterMem EXCEPT !.calls = @ \o p.calls, !.raw = p.raw, !.status = 500,
                          !.detail = <<"Error generating response", prov.kind>>]
    ELSE ChatPersist([afterMem EXCEPT !.calls = @ \o p.calls, !.raw = p.raw],
                     ChatExtract(p.raw), collection, addOk)

\* Lines 1129-1237: the prompt assembly, outside every try block: an
\* exception there is an unhandled 500 and nothing is sent to the provider.
ChatPrompt(afterMem, prompt, prov, collection, addOk) ==
    IF prompt.raised
    THEN [afterMem EXCEPT !.status = 500, !.detail = <<"Internal Server Error">>]
    ELSE ChatGenerate([afterMem EXCEPT !.prompt_built = TRUE,
                                       !.profile = prompt.profile,
                                       !.conversation_history =
                                           prompt.conversation_history],
                      ProviderCall(prov), prov, collection, addOk)

\* Lines 1084-1127: memory lookup and the memory context.
ChatRecall(base, name, mem, prompt, prov, addOk) ==
    IF mem.raised
    THEN [base EXCEPT !.name = name, !.calls = mem.calls,
                      !.results = mem.results,
                      !.memory_context = MemoryContext(mem.results),
                      !.status = 500, !.detail = <<"Internal Server Error">>]
    ELSE ChatPrompt([base EXCEPT !.name = name, !.calls = mem.calls,
                                 !.results = mem.results,
                                 !.memory_context = MemoryContext(mem.results)],
                    prompt, prov, mem.collection, addOk)

\* Lines 1079-1082: the guard and the character name.
ChatNamed(base, who, cc, env, request, chroma, prov, addOk, st) ==
    IF ~who.ok
    THEN [base EXCEPT !.status = 500, !.detail = who.detail]
    ELSE ChatRecall(base, who.name,
                    MemoryQuery(who.name, request.message, chroma, st),
                    Prompt(cc, env, request, who.name), prov, addOk)

\* Lines 1072-1308: the whole /chat handler as a function of the active
\* character, the request, the store and what the two external services do.
\* calls lists the outbound calls in the order the handler makes them; added
\* lists the documents handed to collection.add; stored says the add succeeded.
chat(cc, env, request, chroma, prov, addOk, st) ==
    ChatNamed([NoReply EXCEPT !.op = "chat", !.chroma = chroma,
                              !.provider = prov.kind,
                              !.history = request.history],
              ChatCharacterName(cc), cc, env, request, chroma, prov, addOk, st)

(***************************************************************************)
(* POST /clear-history and POST /config/character/load                     *)
(***************************************************************************)
\* Lines 1311-1356.  chroma is "no_client", "no_collection", "get_fails",
\* "delete_fails", "ok", or "gone" (the client raises with "410 Gone" in its
\* message).  Every exception, the HTTPException of line 1318 included, ends in
\* a ClearHistoryResponse with success=False.
ClearHistoryDeleteAlways(cc, chroma, st) ==
    LET base == [NoReply EXCEPT !.op = "clear_history", !.status = 200,
                                !.chroma = chroma]
    IN
    IF CharacterMissing(cc)
    THEN [base EXCEPT !.detail = <<"Error clearing history", "Character context not loaded.">>]
    ELSE IF "name" \notin cc.keys
    THEN [base EXCEPT !.detail = <<"Error clearing history", "KeyError">>]
    ELSE
    LET named == [base EXCEPT !.name = cc.name]
        ids   == Len(st[CollectionName(cc.name)])
    IN
    CASE chroma \in {"no_client", "gone"} ->
           [named EXCEPT !.calls = <<"get_chroma_client">>,
                         !.detail = IF chroma = "gone"
                                    THEN <<"ChromaDB Cloud API version issue">>
                                    ELSE <<"Error connecting to ChromaDB">>]
      [] chroma = "no_collection" ->
           [named EXCEPT !.calls = <<"get_chroma_client", "get_or_create_collection">>,
                         !.detail = <<"Error connecting to ChromaDB">>]
      [] chroma = "get_fails" ->
           [named EXCEPT !.calls = <<"get_chroma_client", "get_or_create_collection", "get">>,
                         !.detail = <<"Error connecting to ChromaDB">>]
      [] OTHER ->
           IF chroma = "delete_fails"
           THEN [named EXCEPT !.calls = <<"get_chroma_client", "get_or_create_collection", "get", "delete">>,
                              !.detail = <<"Error connecting to ChromaDB">>]
           ELSE [named EXCEPT !.calls = <<"get_chroma_client", "get_or_create_collection", "get", "delete">>,
                              !.detail = <<"Cleared conversation history">>,
                              !.success = TRUE, !.deleted = ids]
ClearHistoryGuardEscapes(cc, chroma, st) ==
    LET base == [NoReply EXCEPT !.op = "clear_history", !.status = 200,
                                !.chroma = chroma]
    IN
    IF CharacterMissing(cc)
    THEN [base EXCEPT !.status = 500, !.detail = <<"Character context not loaded.">>]
    ELSE IF "name" \notin cc.keys
    THEN [base EXCEPT !.detail = <<"Error clearing history", "KeyError">>]
    ELSE
    LET named == [base EXCEPT !.name = cc.name]
        ids   == Len(st[CollectionName(cc.name)])
    IN
    CASE chroma \in {"no_client", "gone"} ->
           [named EXCEPT !.calls = <<"get_chroma_client">>,
                         !.detail = IF chroma = "gone"
                                    THEN <<"ChromaDB Cloud API version issue">>
                                    ELSE <<"Error connecting to ChromaDB">>]
      [] chroma = "no_collection" ->
           [named EXCEPT !.calls = <<"get_chroma_client", "get_or_create_collection">>,
                         !.detail = <<"Error connecting to ChromaDB">>]
      [] chroma = "get_fails" ->
           [named EXCEPT !.calls = <<"get_chroma_client", "get_or_create_collection", "get">>,
                         !.detail = <<"Error connecting to ChromaDB">>]
      [] OTHER ->
           IF ids = 0
           THEN [named EXCEPT !.calls = <<"get_chroma_client", "get_or_create_collection", "get">>,
                              !.detail = <<"No history found">>, !.success = TRUE]
           ELSE IF chroma = "delete_fails"
           THEN [named EXCEPT !.calls = <<"get_chroma_client", "get_or_create_collection", "get", "delete">>,
                              !.detail = <<"Error connecting to ChromaDB">>]
           ELSE [named EXCEPT !.calls = <<"get_chroma_client", "get_or_create_collection", "get", "delete">>,
                              !.detail = <<"Cleared conversation history">>,
                              !.success = TRUE, !.deleted = ids]
clear_history(cc, chroma, st) ==
    LET base == [NoReply EXCEPT !.op = "clear_history", !.status = 200,
                                !.chroma = chroma]
    IN
    IF CharacterMissing(cc)
    THEN [base EXCEPT !.detail = <<"Error clearing history", "Character context not loaded.">>]
    ELSE IF "name" \notin cc.keys
    THEN [base EXCEPT !.detail = <<"Error clearing history", "KeyError">>]
    ELSE
    LET named == [base EXCEPT !.name = cc.name]
        ids   == Len(st[CollectionName(cc.name)])
    IN
    CASE chroma \in {"no_client", "gone"} ->
           [named EXCEPT !.calls = <<"get_chroma_client">>,
                         !.detail = IF chroma = "gone"
                                    THEN <<"ChromaDB Cloud API version issue">>
                                    ELSE <<"Error connecting to ChromaDB">>]
      [] chroma = "no_collection" ->
           [named EXCEPT !.calls = <<"get_chroma_client", "get_or_create_collection">>,
                         !.detail = <<"Error connecting to ChromaDB">>]
      [] chroma = "get_fails" ->
           [named EXCEPT !.calls = <<"get_chroma_client", "get_or_create_collection", "get">>,
                         !.detail = <<"Error connecting to ChromaDB">>]
      [] OTHER ->
           IF ids = 0
           THEN [named EXCEPT !.calls = <<"get_chroma_client", "get_or_create_collection", "get">>,
                              !.detail = <<"No history found">>, !.success = TRUE]
           ELSE IF chroma = "delete_fails"
           THEN [named EXCEPT !.calls = <<"get_chroma_client", "get_or_create_collection", "get", "delete">>,
                              !.detail = <<"Error connecting to ChromaDB">>]
           ELSE [named EXCEPT !.calls = <<"get_chroma_client", "get_or_create_collection", "get", "delete">>,
                              !.detail = <<"Cleared conversation history">>,
                              !.success = TRUE, !.deleted = ids]

\* A file name is the sequence of its pieces: "SP" for a white-space
\* character, "/" and "\\" for the path separators, ".json" and ".JSON" for
\* the extension, any other string for a run of other characters.  <<>> is
\* the empty string, and also None where a name may be absent.
FileName(stem) == <<stem, ".json">>
NoFilename == <<>>

\* Lines 419-430: _safe_json_filename.  The name stripped; 400 for an empty
\* one and for one with a path separator; ".json" appended unless the name
\* ends with it in any letter case.
safe_json_filename(filename) ==
    LET name == Strip(filename)
    IN  IF name = <<>>
        THEN [ok |-> FALSE, detail |-> "filename is required", name |-> <<>>]
        ELSE IF \E i \in 1..Len(name) : name[i] \in {"/", "\\"}
        THEN [ok |-> FALSE, detail |-> "filename must not contain path separators",
              name |-> <<>>]
        ELSE IF name[Len(name)] \in {".json", ".JSON"}
        THEN [ok |-> TRUE, detail |-> "", name |-> name]
        ELSE [ok |-> TRUE, detail |-> "", name |-> Append(name, ".json")]

\* What a file that is not JSON holds; json.loads raises on it.
NotJson == [keys |-> {}, invalid |-> TRUE]
IsJson(obj) == "invalid" \notin DOMAIN obj

\* The JSONData directory when the module is imported (lines 71-89 read
\* environment.json and KaiyaStarling.json from it): the two startup files,
\* the second holding the startup character, a second character, two files
\* whose objects lack required keys and one that is not JSON.  File names
\* are looked up as they are spelled (a case-sensitive file system).
JSONDataWith(startup) ==
    (FileName("KaiyaStarling") :> startup)
    @@ (FileName("Bob") :> Character("Bob"))
    @@ (FileName("broken") :> NamelessCharacter)
    @@ (FileName("environment") :> Environment)
    @@ (FileName("broken_env") :> EnvironmentOf({"era"}, WellFormedEnvironmentKinds))
    @@ (FileName("garbage") :> NotJson)

\* path.write_text(...) of lines 528 and 577: the file created or replaced.
WriteFile(dir, fn, obj) ==
    [n \in DOMAIN dir \cup {fn} |-> IF n = fn THEN obj ELSE dir[n]]

\* Lines 532-564.  req.inline says the request carries an inline object,
\* req.environment; req.filename is the file name (<<>> when absent).  A file's
\* object is rebuilt from its four keys (lines 553-558); an inline object
\* becomes the active environment as it is.  The result is the response
\* status and the new value of the two globals; 500 is the unhandled
\* exception of json.loads.
load_environment(req, env, fn, dir) ==
    LET same == [status |-> 0, environment_context |-> env,
                 environment_filename |-> fn]
        safe == safe_json_filename(req.filename)
    IN
    IF req.inline
    THEN IF ~looks_like_environment(req.environment)
         THEN [same EXCEPT !.status = 400]
         ELSE [status |-> 200, environment_context |-> req.environment,
               environment_filename |-> NoFilename]
    ELSE IF req.filename = <<>> THEN [same EXCEPT !.status = 400]
    ELSE IF ~safe.ok THEN [same EXCEPT !.status = 400]
    ELSE IF safe.name \notin DOMAIN dir THEN [same EXCEPT !.status = 404]
    ELSE IF ~IsJson(dir[safe.name]) THEN [same EXCEPT !.status = 500]
    ELSE IF ~looks_like_environment(dir[safe.name])
    THEN [same EXCEPT !.status = 400]
    ELSE [status |-> 200,
          environment_context |->
              EnvironmentOf(RequiredEnvironmentKeys, dir[safe.name].kinds),
          environment_filename |-> safe.name]

\* Lines 488-515.  req.inline says the request carries an inline object,
\* req.character; req.filename is the file name (<<>> when absent).  The
\* result is the response status and the new value of the two globals; 500
\* is the unhandled exception of json.loads.
load_character(req, cc, fn, dir) ==
    LET same == [status |-> 0, character_context |-> cc,
                 character_filename |-> fn]
        safe == safe_json_filename(req.filename)
    IN
    IF req.inline
    THEN IF ~looks_like_character(req.character)
         THEN [same EXCEPT !.status = 400]
         ELSE [status |-> 200, character_context |-> req.character,
               character_filename |-> NoFilename]
    ELSE IF req.filename = <<>> THEN [same EXCEPT !.status = 400]
    ELSE IF ~safe.ok THEN [same EXCEPT !.status = 400]
    ELSE IF safe.name \notin DOMAIN dir THEN [same EXCEPT !.status = 404]
    ELSE IF ~IsJson(dir[safe.name]) THEN [same EXCEPT !.status = 500]
    ELSE IF ~looks_like_character(dir[safe.name])
    THEN [same EXCEPT !.status = 400]
    ELSE [status |-> 200, character_context |-> dir[safe.name],
          character_filename |-> safe.name]

\* Lines 518-529 and 567-578: save_character and save_environment.  looks is
\* the validator of the handler.  The result is the response status, the
\* file name answered and the directory afterwards.
SaveObject(filename, obj, looks, dir) ==
    LET safe == safe_json_filename(filename)
    IN  IF ~safe.ok \/ ~looks
        THEN [status |-> 400, filename |-> <<>>, json_dir |-> dir]
        ELSE [status |-> 200, filename |-> safe.name,
              json_dir |-> WriteFile(dir, safe.name, obj)]

save_character(req, dir) ==
    SaveObject(req.filename, req.character, looks_like_character(req.character), dir)

save_environment(req, dir) ==
    SaveObject(req.filename, req.environment,
               looks_like_environment(req.environment), dir)

(***************************************************************************)
(* Inputs and bounds                                                       *)
(***************************************************************************)
\* The most documents the memory store holds before /chat stops being called.
MaxDocs == 2

\* The longest text handed to extract_character_response directly.
MaxLen == 5

\* Every sequence over A of length at most n.
SeqsUpTo(A, n) == UNION {[1..k -> A] : k \in 0..n}

\* The texts extract_character_response is called with directly.
ExtractAlphabet ==
    {"OPEN", "CLOSE", "NL", "SP", "HELLO", "LMT", "WNR", "OKNEED", "L994"}
ExtractInputs == SeqsUpTo(ExtractAlphabet, MaxLen)

\* The dialogue lines the provider answers with: 3, 5, 6, 12, 999 and 1000
\* characters long, one holding a pollution substring, one a reasoning marker.
ChatLines ==
    { <<"HI">>, <<"W5">>, <<"W6">>, <<"HELLO">>, <<"L994", "W5">>,
      <<"L994", "W6">>, <<"TUS">>, <<"LMT">> }

\* The provider's completions: a line in a closed response block, the same
\* followed by a newline, in an unterminated block, and bare.
RawTexts ==
    UNION { { <<"OPEN">> \o a \o <<"CLOSE">>,
              <<"OPEN">> \o a \o <<"CLOSE", "NL">>,
              <<"OPEN">> \o a,
              a } : a \in ChatLines }

ProviderOutcomes ==
    {[kind |-> k, text |-> <<>>] :
        k \in {"no_key", "transport_error", "http_error", "bad_shape"}}
    \cup {[kind |-> "text", text |-> t] : t \in RawTexts}

ChatChroma == {"no_client", "no_collection", "query_fails", "ok"}
ClearChroma == {"no_client", "gone", "no_collection", "get_fails", "delete_fails", "ok"}

\* The file names of the load requests: the files of the directory spelled
\* in full, without the extension, with white space around, with the
\* extension in capitals; a file that does not exist; a path; white space
\* only; no name.
LoadFilenames ==
    { FileName("KaiyaStarling"), FileName("Bob"), FileName("broken"),
      FileName("environment"), FileName("broken_env"), FileName("garbage"),
      FileName("missing"),
      <<"Bob">>, <<"environment">>,
      <<"SP", "KaiyaStarling", ".json", "SP">>,
      <<"Bob", ".JSON">>,
      <<"..", "/", "JSONData", "/", "Bob", ".json">>,
      <<"SP", "SP">>,
      <<>> }

LoadRequests ==
    {[inline |-> TRUE, character |-> c, filename |-> <<>>] :
        c \in {Character(n) : n \in CharacterNames}
               \cup {NamelessCharacter, NoCharacter}}
    \cup {[inline |-> FALSE, character |-> NoCharacter, filename |-> f] :
        f \in LoadFilenames}

\* The objects KaiyaStarling.json may hold when the module is imported
\* (lines 87-89 load it without validating it).
\* The save requests: a second character and an object without the required
\* keys, under a new name, over a file of the directory, with white space
\* around the name, under a path, under white space only.
SaveFilenames ==
    { <<"SP", "New", "SP">>, FileName("KaiyaStarling"),
      <<"..", "/", "JSONData", "/", "Bob", ".json">>, <<"SP", "SP">> }
SaveRequests ==
    {[filename |-> f, character |-> c] :
        f \in SaveFilenames, c \in {Character("Bob"), NamelessCharacter}}

StartupCharacters == {Character("Kaiya Starling"), NoCharacter, NamelessCharacter}

RECURSIVE TotalDocs(_, _)
TotalDocs(st, C) ==
    IF C = {} THEN 0
    ELSE LET c == CHOOSE x \in C : TRUE
         IN  Len(st[c]) + TotalDocs(st, C \ {c})

NoRes == [called |-> FALSE, raised |-> FALSE, step |-> 0, out |-> <<>>]

\* The most assets ever written to the assets directory, the latest clock
\* reading, and the longest time-to-live NPC_TEMP_UPLOAD_TTL_SECONDS sets.
MaxAssets == 3
MaxTime == 3
MaxTtl == 2

\* expires_at of an asset that has no <id>.tmp.json file.
NoMeta == -1

\* An empty assets directory at time 0.  issued counts the asset ids handed
\* out so far (uuid4 never repeats one), files holds the ids with an asset
\* file, glb those of them whose file is <id>.glb, meta gives expires_at of
\* the ids with a metadata file, and reading counts the uploads whose handler
\* is suspended at "await file.read()" (line 905).
AssetsAt(ttl) ==
    [now |-> 0, ttl |-> ttl, issued |-> 0, files |-> {}, glb |-> {},
     meta |-> [id \in 1..MaxAssets + 1 |-> NoMeta], reading |-> 0]
NoAssets == AssetsAt(0)

\* Line 145: asyncio.Semaphore(5)
SemaphorePermits == 5

\* No bulk generation running.  phase is the await instruction is suspended
\* at: "gathering" (line 157), "writing" (output.json, line 175), "relating"
\* (the relationship completion call, lines 184 and 68), "writing_edges"
\* (output-edgelist.json, lines 184 and 89).  pc gives each character task's
\* position: "waiting" for a permit, "calling" (permit held, completion call
\* in flight) or how the call ended.  results is the list of lines 160-169,
\* written the files of the working directory the run has written, and
\* characters, edge_list and error what instruction returned.
NoBulk ==
    [phase |-> "idle", amount |-> 0, pc |-> <<>>, permits |-> SemaphorePermits,
     results |-> <<>>, written |-> {}, relationship |-> "none",
     characters |-> <<>>, edge_list |-> "none", error |-> FALSE]

\* No /chat coroutine on the event loop and no load request waiting.  pc is
\* the coroutine's position, character the object that was active when it
\* started, name its character_name, collection the memory collection it
\* opened, profile the profile in its prompt, stop the name in its stop
\* sequence (empty until the payload of lines 1249-1256 is built), output
\* the output_content of lines 1266-1272, status the status it answers with.
NoTurn ==
    [pc |-> "idle", character |-> [keys |-> {}], name |-> "", collection |-> "",
     profile |-> [environment |-> ""], stop |-> "", output |-> <<>>,
     status |-> 0, pending |-> <<>>]

(***************************************************************************)
(* The service: requests are served one at a time (the handlers are        *)
(* coroutines that never await), each leaving its reply until it is        *)
(* delivered.                                                              *)
(***************************************************************************)
Init ==
    /\ text = <<>>
    /\ res = NoRes
    /\ character_context \in StartupCharacters
    /\ character_filename = FileName("KaiyaStarling")
    /\ environment_context = Environment
    /\ environment_filename = FileName("environment")
    /\ store = [c \in Collections |-> <<>>]
    /\ reply = NoReply
    /\ assets = NoAssets
    /\ bulk = NoBulk
    /\ turn = NoTurn
    /\ json_dir = JSONDataWith(character_context)

\* One /chat request with one of the histories H, the provider answering
\* with one of P.
ChatWith(P, H) ==
    /\ reply.op = "none"
    /\ \E chroma \in ChatChroma, prov \in P, addOk \in BOOLEAN, history \in H :
          reply' = chat(character_context, environment_context,
                        [message |-> "hi", history |-> history],
                        chroma, prov, addOk, store)
    /\ store' = IF reply'.stored
                THEN [store EXCEPT ![CollectionName(reply'.name)] =
                                      Append(@, reply'.added[1])]
                ELSE store
    /\ UNCHANGED <<json_dir, turn, assets, bulk, text, res, character_context, character_filename,
                 environment_context, environment_filename>>

Chat ==
    /\ TotalDocs(store, Collections) < MaxDocs
    /\ ChatWith(ProviderOutcomes, {<<>>})

ClearHistory ==
    /\ reply.op = "none"
    /\ \E chroma \in ClearChroma :
          LET r == clear_history(character_context, chroma, store)
          IN  /\ reply' = r
              /\ store' = IF r.deleted > 0
                          THEN [store EXCEPT ![CollectionName(r.name)] = <<>>]
                          ELSE store
    /\ UNCHANGED <<json_dir, turn, assets, bulk, text, res, character_context, character_filename,
                 environment_context, environment_filename>>

\* One POST /config/character/load with one of the requests R.
LoadCharacterFrom(R) ==
    /\ reply.op = "none"
    /\ \E req \in R :
          LET r == load_character(req, character_context, character_filename, json_dir)
          IN  /\ character_context' = r.character_context
              /\ character_filename' = r.character_filename
              /\ reply' = [NoReply EXCEPT !.op = "load_character",
                                          !.status = r.status]
    /\ UNCHANGED <<json_dir, turn, assets, bulk, text, res, environment_context, environment_filename, store>>

LoadCharacter == LoadCharacterFrom(LoadRequests)

\* One POST /config/character/save with one of the requests R.
SaveCharacterFrom(R) ==
    /\ reply.op = "none"
    /\ \E req \in R :
          LET r == save_character(req, json_dir)
          IN  /\ json_dir' = r.json_dir
              /\ reply' = [NoReply EXCEPT !.op = "save_character",
                                          !.status = r.status,
                                          !.filename = r.filename]
    /\ UNCHANGED <<turn, assets, bulk, text, res, character_context, character_filename,
                   environment_context, environment_filename, store>>

SaveCharacter == SaveCharacterFrom(SaveRequests)

\* The reply goes out; the next request can be served.
Deliver ==
    /\ reply.op # "none"
    /\ reply' = NoReply
    /\ UNCHANGED <<json_dir, turn, assets, bulk, text, res, character_context, character_filename,
                 environment_context, environment_filename, store>>

Next == Chat \/ ClearHistory \/ LoadCharacter \/ SaveCharacter \/ Deliver

Spec == Init /\ [][Next]_vars

(***************************************************************************)
(* /chat against a memory collection that already holds documents, in the  *)
(* order the similarity query ranks them                                   *)
(***************************************************************************)
\* The most documents the collection holds at the start.
MaxStored == 4

\* Documents a collection may hold: an empty one, two clean lines, one with
\* a pollution substring, one with the same words in lower case, one of
\* exactly 500 characters and one of 501.
StoredDocs ==
    { <<>>, <<"HELLO">>, <<"W6">>, <<"TUS">>, <<"TUSLOW">>,
      <<"L494", "W6">>, <<"L494", "W6", "DOT">> }

\* What the provider does in these turns: a failure, a response that is
\* stored, one that is too short to be stored.
RecallProviderOutcomes ==
    { [kind |-> "http_error", text |-> <<>>],
      [kind |-> "text", text |-> <<"OPEN", "HELLO", "CLOSE">>],
      [kind |-> "text", text |-> <<"HI">>] }

InitRecall ==
    /\ text = <<>>
    /\ res = NoRes
    /\ character_context = Character("Kaiya Starling")
    /\ character_filename = FileName("KaiyaStarling")
    /\ environment_context = Environment
    /\ environment_filename = FileName("environment")
    /\ \E docs \in SeqsUpTo(StoredDocs, MaxStored) :
          store = [c \in Collections |->
                      IF c = "Kaiya_Starling" THEN docs ELSE <<>>]
    /\ reply = NoReply
    /\ assets = NoAssets
    /\ bulk = NoBulk
    /\ turn = NoTurn
    /\ json_dir = JSONDataWith(character_context)

ChatRecalling == ChatWith(RecallProviderOutcomes, {<<>>})

NextRecall == ChatRecalling

SpecRecall == InitRecall /\ [][NextRecall]_vars

(***************************************************************************)
(* /chat with a conversation history in the request                        *)
(***************************************************************************)
\* The most turns a request's history holds.
MaxHistory == 12

\* What the player and the character said in turn i.
PlayerLines ==
    <<"p01", "p02", "p03", "p04", "p05", "p06", "p07", "p08", "p09", "p10",
      "p11", "p12", "p13", "p14">>
CharacterLines ==
    <<"c01", "c02", "c03", "c04", "c05", "c06", "c07", "c08", "c09", "c10",
      "c11", "c12", "c13", "c14">>

\* The entry of turn i: a list of two strings, or one of the other lists of
\* strings the request model (List[List[str]], line 139) lets through.
HistoryEntry(i, shape) ==
    CASE shape = "empty"  -> <<>>
      [] shape = "single" -> <<PlayerLines[i]>>
      [] shape = "triple" -> <<PlayerLines[i], CharacterLines[i], "extra">>
      [] OTHER            -> <<PlayerLines[i], CharacterLines[i]>>

\* Histories of up to MaxHistory turns, oldest first, at most one entry of
\* which is not a pair.
HistoryInputs ==
    { [i \in 1..n |-> HistoryEntry(i, "pair")] : n \in 0..MaxHistory }
    \cup UNION { { [i \in 1..n |-> HistoryEntry(i, IF i = m THEN shape ELSE "pair")] :
                     m \in 1..n, shape \in {"empty", "single", "triple"} } :
                 n \in 1..MaxHistory }

ChatWithHistory == ChatWith(RecallProviderOutcomes, HistoryInputs)

NextHistory == ChatWithHistory

SpecHistory == Init /\ [][NextHistory]_vars

(***************************************************************************)
(* /chat after loading characters and environments whose values have any   *)
(* JSON kind                                                               *)
(***************************************************************************)
\* The most values of an object that are not of the kind the files hold.
MaxMalformed == 1

ShapedCharacterKinds ==
    { k \in [CharacterFields -> ValueKinds] :
        Cardinality({f \in CharacterFields : k[f] # WellFormedCharacterKinds[f]})
            <= MaxMalformed }

ShapedEnvironmentKinds ==
    { k \in [EnvironmentFields -> ValueKinds] :
        Cardinality({f \in EnvironmentFields : k[f] # WellFormedEnvironmentKinds[f]})
            <= MaxMalformed }

\* Inline characters with every required key, one without "name", and a file.
ShapedLoadRequests ==
    {[inline |-> TRUE, character |-> CharacterOf("Bob", k), filename |-> <<>>] :
        k \in ShapedCharacterKinds}
    \cup {[inline |-> TRUE, character |-> NamelessCharacter, filename |-> <<>>]}
    \cup {[inline |-> FALSE, character |-> NoCharacter, filename |-> f] :
          f \in {FileName("KaiyaStarling"), <<"Shaped">>}}

\* Inline environments with every required key, one without, and files.
EnvironmentLoadRequests ==
    {[inline |-> TRUE, environment |-> EnvironmentOf(RequiredEnvironmentKeys, k),
      filename |-> <<>>] : k \in ShapedEnvironmentKinds}
    \cup {[inline |-> TRUE,
           environment |-> EnvironmentOf({"era"}, WellFormedEnvironmentKinds),
           filename |-> <<>>]}
    \cup {[inline |-> FALSE, environment |-> Environment, filename |-> f] :
          f \in LoadFilenames \cup {<<"Shaped">>}}

\* What the provider does in these turns: a failure, and a response too short
\* to be stored.
PromptProviderOutcomes ==
    { [kind |-> "http_error", text |-> <<>>],
      [kind |-> "text", text |-> <<"HI">>] }

InitPrompt ==
    /\ text = <<>>
    /\ res = NoRes
    /\ character_context = Character("Kaiya Starling")
    /\ character_filename = FileName("KaiyaStarling")
    /\ environment_context = Environment
    /\ environment_filename = FileName("environment")
    /\ store = [c \in Collections |-> <<>>]
    /\ reply = NoReply
    /\ assets = NoAssets
    /\ bulk = NoBulk
    /\ turn = NoTurn
    /\ json_dir = JSONDataWith(character_context)

LoadShapedCharacter == LoadCharacterFrom(ShapedLoadRequests)

\* One POST /config/environment/load.
LoadEnvironment ==
    /\ reply.op = "none"
    /\ \E req \in EnvironmentLoadRequests :
          LET r == load_environment(req, environment_context, environment_filename,
                                  json_dir)
          IN  /\ environment_context' = r.environment_context
              /\ environment_filename' = r.environment_filename
              /\ reply' = [NoReply EXCEPT !.op = "load_environment",
                                          !.status = r.status]
    /\ UNCHANGED <<json_dir, turn, assets, bulk, text, res, character_context, character_filename, store>>

\* Saved as Shaped.json: a character whose appearance holds none of the
\* keys the prompt reads, one whose appearance is a string, one without the
\* required keys.
ShapedSaveRequests ==
    {[filename |-> <<"Shaped">>, character |-> c] :
        c \in { CharacterOf("Bob", [WellFormedCharacterKinds
                                      EXCEPT !["appearance"] = "object_other"]),
                CharacterOf("Bob", [WellFormedCharacterKinds
                                      EXCEPT !["appearance"] = "text"]),
                NamelessCharacter }}

\* Saved as Shaped.json: an environment whose detail holds none of the keys
\* the prompt reads, and one without the required keys.
ShapedEnvironmentSaveRequests ==
    {[filename |-> <<"Shaped">>, environment |-> e] :
        e \in { EnvironmentOf(RequiredEnvironmentKeys,
                              [WellFormedEnvironmentKinds
                                  EXCEPT !["detail"] = "object_other"]),
                EnvironmentOf({"era"}, WellFormedEnvironmentKinds) }}

SaveShapedCharacter == SaveCharacterFrom(ShapedSaveRequests)

\* One POST /config/environment/save.
SaveEnvironment ==
    /\ reply.op = "none"
    /\ \E req \in ShapedEnvironmentSaveRequests :
          LET r == save_environment(req, json_dir)
          IN  /\ json_dir' = r.json_dir
              /\ reply' = [NoReply EXCEPT !.op = "save_environment",
                                          !.status = r.status,
                                          !.filename = r.filename]
    /\ UNCHANGED <<turn, assets, bulk, text, res, character_context, character_filename,
                   environment_context, environment_filename, store>>

ChatPrompting == ChatWith(PromptProviderOutcomes, {<<>>})

NextPrompt ==
    \/ LoadShapedCharacter \/ LoadEnvironment
    \/ SaveShapedCharacter \/ SaveEnvironment
    \/ ChatPrompting \/ Deliver

SpecPrompt == InitPrompt /\ [][NextPrompt]_vars

(***************************************************************************)
(* Bulk generation: instruction(file_obj, amount) of src/app/generation.py *)
(***************************************************************************)
\* The most characters one instruction call asks for.
MaxAmount == 6

\* How a completion call ends: "ok" (a JSON character), "no_content" (the
\* message content is None, line 40), "failed" (the call or json.loads
\* raises, line 59).
CallOutcomes == {"ok", "no_content", "failed"}

\* Lines 19-61: what character_generation returns for task i, as the object
\* json.loads makes of it at line 163: the character, {} for "{}", or
\* {"name": name, "error": str(e)} from the except clause of lines 59-61.
CharacterResult(i, outcome) ==
    [task |-> i,
     kind |-> CASE outcome = "ok"         -> "character"
                [] outcome = "no_content" -> "empty"
                [] OTHER                  -> "error"]

\* Lines 157-166: the results list, one parsed entry per task in task order
\* (character_generation returns a JSON string in every case, so gather holds
\* no exception and json.loads never fails).
RECURSIVE GatherResults(_, _)
GatherResults(pc, i) ==
    IF i > Len(pc) THEN <<>>
    ELSE <<CharacterResult(i, pc[i])>> \o GatherResults(pc, i + 1)

\* Lines 147-148: leaving "async with semaphore" gives the permit back
\* however the call ended.
ReleaseUnlessFailed(permits, outcome) ==
    IF outcome = "failed" THEN permits ELSE permits + 1
Release(permits, outcome) == permits + 1

\* The character tasks whose completion call is in flight.
InFlight == {i \in 1..Len(bulk.pc) : bulk.pc[i] = "calling"}

\* Lines 121-155: instruction is called; the names are generated (one per
\* requested character, generate_names_optimized pads and cuts the list) and
\* gather starts one task per character.  An unreadable input file ends the
\* call at once (lines 129-135).
Instruction ==
    /\ bulk.phase = "idle"
    /\ \E amount \in 0..MaxAmount, readable \in BOOLEAN :
          bulk' = IF readable
                  THEN [bulk EXCEPT !.phase = "gathering", !.amount = amount,
                                    !.pc = [i \in 1..amount |-> "waiting"]]
                  ELSE [bulk EXCEPT !.phase = "returned", !.amount = amount,
                                    !.error = TRUE]
    /\ UNCHANGED <<json_dir, turn, text, res, character_context, character_filename,
                   environment_context, environment_filename, store, reply, assets>>

\* Line 147: a task enters "async with semaphore" and starts its call.
Acquire ==
    /\ bulk.phase = "gathering"
    /\ bulk.permits > 0
    /\ \E i \in 1..bulk.amount :
          /\ bulk.pc[i] = "waiting"
          /\ bulk' = [bulk EXCEPT !.pc[i] = "calling", !.permits = @ - 1]
    /\ UNCHANGED <<json_dir, turn, text, res, character_context, character_filename,
                   environment_context, environment_filename, store, reply, assets>>

\* Lines 24-61 and 147-148: a call in flight ends; character_generation
\* returns and the task leaves the semaphore block.
Finish ==
    /\ bulk.phase = "gathering"
    /\ \E i \in InFlight, outcome \in CallOutcomes :
          bulk' = [bulk EXCEPT !.pc[i] = outcome,
                               !.permits = Release(@, outcome)]
    /\ UNCHANGED <<json_dir, turn, text, res, character_context, character_filename,
                   environment_context, environment_filename, store, reply, assets>>

\* Lines 157-181: every task has ended and gather returns; the results are
\* parsed; with none instruction returns the error of line 172, otherwise it
\* starts the write of output.json in a thread and waits for it.
Gather ==
    /\ bulk.phase = "gathering"
    /\ \A i \in 1..bulk.amount : bulk.pc[i] \in CallOutcomes
    /\ bulk' = IF GatherResults(bulk.pc, 1) = <<>>
               THEN [bulk EXCEPT !.phase = "returned", !.error = TRUE]
               ELSE [bulk EXCEPT !.phase = "writing",
                                 !.results = GatherResults(bulk.pc, 1)]
    /\ UNCHANGED <<json_dir, turn, text, res, character_context, character_filename,
                   environment_context, environment_filename, store, reply, assets>>

\* Lines 175-184 and 194-195: the write of output.json ends.  When it raised
\* (the file cannot be written) the except clause of line 194 returns
\* {"error": "Generation failed: ..."} and no characters; otherwise
\* relationship_generation starts its completion call in a thread.
WriteOutput ==
    /\ bulk.phase = "writing"
    /\ \E writable \in BOOLEAN :
          bulk' = IF writable
                  THEN [bulk EXCEPT !.phase = "relating",
                                    !.written = @ \cup {"output.json"}]
                  ELSE [bulk EXCEPT !.phase = "returned", !.error = TRUE]
    /\ UNCHANGED <<json_dir, turn, text, res, character_context, character_filename,
                   environment_context, environment_filename, store, reply, assets>>

\* How the relationship completion call ends: content with an edge list,
\* JSON content without one, content None (line 83), or the call raising.
RelationshipOutcomes == {"edges", "no_edge_list", "no_content", "failed"}

\* Lines 186-192: the combined results instruction returns.
Combined(b, edge_list) ==
    [b EXCEPT !.phase = "returned", !.characters = b.results,
              !.edge_list = edge_list, !.error = FALSE]

\* Lines 63-95 and 111-113: the relationship completion call ends.  With no
\* content (line 84) or an exception (line 113) relationship_generation
\* returns [] and instruction returns the characters with it; otherwise the
\* write of output-edgelist.json starts in a thread.
Relationship ==
    /\ bulk.phase = "relating"
    /\ \E outcome \in RelationshipOutcomes :
          bulk' = IF outcome \in {"no_content", "failed"}
                  THEN Combined(bulk, "empty")
                  ELSE [bulk EXCEPT !.phase = "writing_edges",
                                    !.relationship = outcome]
    /\ UNCHANGED <<json_dir, turn, text, res, character_context, character_filename,
                   environment_context, environment_filename, store, reply, assets>>

\* Lines 89-113 and 186-192: the write of output-edgelist.json ends;
\* relationship_generation returns the relationships of the content, or []
\* when the content holds none or the write raised, and instruction returns
\* the characters and the edge list.
Return ==
    /\ bulk.phase = "writing_edges"
    /\ \E writable \in BOOLEAN :
          bulk' = IF writable
                  THEN [Combined(bulk, IF bulk.relationship = "edges"
                                       THEN "edges" ELSE "empty")
                           EXCEPT !.written = @ \cup {"output-edgelist.json"}]
                  ELSE Combined(bulk, "empty")
    /\ UNCHANGED <<json_dir, turn, text, res, character_context, character_filename,
                   environment_context, environment_filename, store, reply, assets>>

NextBulk ==
    Instruction \/ Acquire \/ Finish \/ Gather \/ WriteOutput \/ Relationship \/ Return

InitBulk ==
    /\ text = <<>>
    /\ res = NoRes
    /\ character_context = Character("Kaiya Starling")
    /\ character_filename = FileName("KaiyaStarling")
    /\ environment_context = Environment
    /\ environment_filename = FileName("environment")
    /\ store = [c \in Collections |-> <<>>]
    /\ reply = NoReply
    /\ assets = NoAssets
    /\ bulk = NoBulk
    /\ turn = NoTurn
    /\ json_dir = JSONDataWith(character_context)

SpecBulk == InitBulk /\ [][NextBulk]_vars

\* The event loop runs every task that can run, and every completion call
\* ends (it returns or raises).
SpecBulkFair == SpecBulk /\ WF_vars(NextBulk)

(***************************************************************************)
(* The assets directory: uploads, generated assets, GET /assets/{id}       *)
(***************************************************************************)
\* Line 317: time.time() >= expires_at
ExpiredStrictlyAfter(now, expires_at) == now > expires_at
Expired(now, expires_at) == now >= expires_at

\* Lines 305-319 then 749-756: _enforce_temp_asset_not_expired and
\* _find_asset_path, as both GET handlers call them: the status, the detail
\* and the directory afterwards.
ServeAsset(a, id) ==
    IF a.meta[id] # NoMeta /\ Expired(a.now, a.meta[id])
    THEN [status |-> 404, detail |-> <<"Asset expired">>,
          assets |-> [a EXCEPT !.files = @ \ {id}, !.glb = @ \ {id},
                               !.meta[id] = NoMeta]]
    ELSE IF id \in a.files
    THEN [status |-> 200, detail |-> <<>>, assets |-> a]
    ELSE [status |-> 404, detail |-> <<"Asset not found">>, assets |-> a]

InitAssets ==
    /\ text = <<>>
    /\ res = NoRes
    /\ character_context = Character("Kaiya Starling")
    /\ character_filename = FileName("KaiyaStarling")
    /\ environment_context = Environment
    /\ environment_filename = FileName("environment")
    /\ store = [c \in Collections |-> <<>>]
    /\ reply = NoReply
    /\ \E ttl \in -1..MaxTtl : assets = AssetsAt(ttl)
    /\ bulk = NoBulk
    /\ turn = NoTurn
    /\ json_dir = JSONDataWith(character_context)

\* The most uploads suspended at line 905 at one time.
MaxUploads == 1

\* What file.read() gives: the bytes of an image, bytes that are no image,
\* no bytes, or an exception.
UploadKinds == {"image", "not_image", "empty", "read_fails"}

\* Lines 904-934: POST /image/upload from the return of file.read() on: 400
\* when the read raised, gave nothing, or gave no image; otherwise the asset
\* is written under a new id together with its metadata,
\* expires_at = time.time() + max(0, TTL).
upload_image(a, upload) ==
    CASE upload = "read_fails" ->
           [status |-> 400, detail |-> <<"Failed to read upload", "exception">>,
            asset_id |-> 0, assets |-> a]
      [] upload = "empty" ->
           [status |-> 400, detail |-> <<"Uploaded file is empty">>,
            asset_id |-> 0, assets |-> a]
      [] upload = "not_image" ->
           [status |-> 400, detail |-> <<"Uploaded file is not a valid image">>,
            asset_id |-> 0, assets |-> a]
      [] OTHER ->
           [status |-> 200, detail |-> <<>>, asset_id |-> a.issued + 1,
            assets |-> [a EXCEPT !.issued = @ + 1,
                                 !.files = @ \cup {a.issued + 1},
                                 !.meta[a.issued + 1] =
                                     a.now + (IF a.ttl > 0 THEN a.ttl ELSE 0)]]

\* Lines 893-905: POST /image/upload up to its await: without a file it
\* answers 400 at once, with one it waits for file.read() and other requests
\* are served meanwhile.
UploadImage ==
    /\ reply.op = "none"
    /\ \E present \in BOOLEAN :
          IF present
          THEN /\ assets.reading < MaxUploads
               /\ assets.issued + assets.reading < MaxAssets
               /\ assets' = [assets EXCEPT !.reading = @ + 1]
               /\ reply' = reply
          ELSE /\ assets' = assets
               /\ reply' = [NoReply EXCEPT !.op = "upload_image", !.status = 400,
                                           !.detail = <<"file is required">>]
    /\ UNCHANGED <<json_dir, turn, text, res, character_context, character_filename,
                   environment_context, environment_filename, store, bulk>>

\* Lines 905-934: file.read() returns and the handler runs to its end, with
\* the clock and the directory as they are by then.
UploadImageRead ==
    /\ reply.op = "none"
    /\ assets.reading > 0
    /\ \E upload \in UploadKinds :
          LET r == upload_image([assets EXCEPT !.reading = @ - 1], upload)
          IN  /\ assets' = r.assets
              /\ reply' = [NoReply EXCEPT !.op = "upload_image",
                                          !.status = r.status,
                                          !.detail = r.detail,
                                          !.asset_id = r.asset_id]
    /\ UNCHANGED <<json_dir, turn, text, res, character_context, character_filename,
                   environment_context, environment_filename, store, bulk>>

\* The requests to POST /image/generate: a prompt of white space only, a
\* reference image that is no public URL, and a well-formed one; and what
\* the image provider does: both images, a failure (unreachable, an HTTP
\* error status, no API key, the download failing), or a body without
\* data[0].url.
GenerateRequests == {"empty_prompt", "bad_reference", "ok"}
ImageProviderOutcomes == {"ok", "fails", "no_data"}

\* Lines 953-1034: POST /image/generate: 400 for an empty prompt (line 961)
\* or a bad reference image (line 988), 500 when a provider call fails
\* (lines 859 and 1021); otherwise two assets (profile and full body) are
\* written with no metadata file.
generate_images(a, request, provider) ==
    CASE request = "empty_prompt" ->
           [status |-> 400, detail |-> <<"prompt is required">>,
            asset_id |-> 0, assets |-> a]
      [] request = "bad_reference" ->
           [status |-> 400,
            detail |-> <<"reference_images must be publicly reachable URLs">>,
            asset_id |-> 0, assets |-> a]
      [] provider = "fails" ->
           [status |-> 500, detail |-> <<"Image generation failed", "exception">>,
            asset_id |-> 0, assets |-> a]
      [] provider = "no_data" ->
           [status |-> 500, detail |-> <<"Unexpected Together images response">>,
            asset_id |-> 0, assets |-> a]
      [] OTHER ->
           [status |-> 200, detail |-> <<>>, asset_id |-> a.issued + 1,
            assets |-> [a EXCEPT !.issued = @ + 2,
                                 !.files = @ \cup {a.issued + 1, a.issued + 2}]]

GenerateImage ==
    /\ reply.op = "none"
    /\ \E request \in GenerateRequests, provider \in ImageProviderOutcomes :
          LET r == generate_images(assets, request, provider)
          IN  /\ r.assets.issued + assets.reading <= MaxAssets
              /\ assets' = r.assets
              /\ reply' = [NoReply EXCEPT !.op = "generate_images",
                                          !.status = r.status,
                                          !.detail = r.detail,
                                          !.asset_id = r.asset_id]
    /\ UNCHANGED <<json_dir, turn, text, res, character_context, character_filename,
                   environment_context, environment_filename, store, bulk>>

\* Lines 1037-1069: POST /image/to-3d: 404 when the id has no file (line
\* 1045; the expiry of an upload is not looked at), 400 when the file is a
\* .glb (line 1047), 500 when the GPU function fails (line 1058); otherwise
\* <new id>.glb is written with no metadata file.
image_to_3d(a, id, gpu) ==
    IF id \notin a.files
    THEN [status |-> 404, detail |-> <<"Asset not found">>, asset_id |-> 0,
          assets |-> a]
    ELSE IF id \in a.glb
    THEN [status |-> 400, detail |-> <<"asset_id must refer to an image asset">>,
          asset_id |-> 0, assets |-> a]
    ELSE IF gpu = "fails"
    THEN [status |-> 500, detail |-> <<"TRELLIS GPU conversion failed", "exception">>,
          asset_id |-> 0, assets |-> a]
    ELSE [status |-> 200, detail |-> <<>>, asset_id |-> a.issued + 1,
          assets |-> [a EXCEPT !.issued = @ + 1,
                               !.files = @ \cup {a.issued + 1},
                               !.glb = @ \cup {a.issued + 1}]]

ImageTo3D ==
    /\ reply.op = "none"
    /\ \E id \in 1..MaxAssets + 1, gpu \in {"ok", "fails"} :
          LET r == image_to_3d(assets, id, gpu)
          IN  /\ r.assets.issued + assets.reading <= MaxAssets
              /\ assets' = r.assets
              /\ reply' = [NoReply EXCEPT !.op = "image_to_3d",
                                          !.status = r.status,
                                          !.detail = r.detail,
                                          !.asset_id = r.asset_id]
    /\ UNCHANGED <<json_dir, turn, text, res, character_context, character_filename,
                   environment_context, environment_filename, store, bulk>>

\* modal_app.py lines 239-286: the scheduled cleanup removes the asset file
\* and the metadata file of every upload that is not before its expires_at
\* (line 264: "if now < expires_at: continue").
cleanup_temporary_uploads(a) ==
    LET due == {id \in DOMAIN a.meta :
                    a.meta[id] # NoMeta /\ ~(a.now < a.meta[id])}
    IN  [a EXCEPT !.files = @ \ due, !.glb = @ \ due,
                  !.meta = [id \in DOMAIN a.meta |->
                               IF id \in due THEN NoMeta ELSE a.meta[id]]]

\* The cron schedule runs the cleanup, on the same assets volume, whatever
\* the service is doing.
Cleanup ==
    /\ assets' = cleanup_temporary_uploads(assets)
    /\ UNCHANGED <<json_dir, turn, text, res, character_context, character_filename,
                   environment_context, environment_filename, store, reply, bulk>>

\* Lines 937-950: GET /assets/{id} and GET /assets/{id}/download.
GetAssetAs(op) ==
    /\ reply.op = "none"
    /\ \E id \in 1..MaxAssets + 1 :
          /\ assets' = ServeAsset(assets, id).assets
          /\ reply' = [NoReply EXCEPT !.op = op, !.asset_id = id,
                                      !.status = ServeAsset(assets, id).status,
                                      !.detail = ServeAsset(assets, id).detail]
    /\ UNCHANGED <<json_dir, turn, text, res, character_context, character_filename,
                   environment_context, environment_filename, store, bulk>>

GetAsset == GetAssetAs("get_asset")
DownloadAsset == GetAssetAs("download_asset")

\* time.time() moves on.
Tick ==
    /\ assets.now < MaxTime
    /\ assets' = [assets EXCEPT !.now = @ + 1]
    /\ UNCHANGED <<json_dir, turn, text, res, character_context, character_filename,
                   environment_context, environment_filename, store, reply, bulk>>

NextAssets ==
    UploadImage \/ UploadImageRead \/ GenerateImage \/ ImageTo3D \/ GetAsset
        \/ DownloadAsset \/ Cleanup \/ Tick \/ Deliver

SpecAssets == InitAssets /\ [][NextAssets]_vars

(***************************************************************************)
(* extract_character_response called directly on every text of             *)
(* ExtractInputs                                                           *)
(***************************************************************************)
InitExtract ==
    /\ text \in ExtractInputs
    /\ res = NoRes
    /\ character_context = Character("Kaiya Starling")
    /\ character_filename = FileName("KaiyaStarling")
    /\ environment_context = Environment
    /\ environment_filename = FileName("environment")
    /\ store = [c \in Collections |-> <<>>]
    /\ reply = NoReply
    /\ assets = NoAssets
    /\ bulk = NoBulk
    /\ turn = NoTurn
    /\ json_dir = JSONDataWith(character_context)

Extract ==
    /\ ~res.called
    /\ res' = [called |-> TRUE] @@ ExtractRun(text)
    /\ UNCHANGED <<json_dir, turn, assets, bulk, text, character_context, character_filename,
                 environment_context, environment_filename, store, reply>>

NextExtract == Extract

SpecExtract == InitExtract /\ [][NextExtract]_vars

(***************************************************************************)
(* extract_character_response called directly on texts of the shapes the   *)
(* steps of the cascade look for                                           *)
(***************************************************************************)
\* The longest body of a response block, in tokens.
MaxBody == 2

\* What stands between the tags of a block: placeholders, dialogue lines, a
\* reasoning marker, a meta phrase.
BlockAlphabet == {"DOTS", "DOT", "IM", "HELLO", "HI", "SP", "LMT", "MSURE"}
BlockBodies == SeqsUpTo(BlockAlphabet, MaxBody)

\* Two closed response blocks, one after the other.
BlockInputs ==
    { <<"OPEN">> \o a \o <<"CLOSE", "OPEN">> \o b \o <<"CLOSE">> :
        a \in BlockBodies, b \in BlockBodies }

\* What stands before and after an opening tag that is never closed.
OpenTagAlphabet == {"HELLO", "HI", "SP", "NL", "TAG", "SPECIAL", "MSURE", "LMT"}
OpenTagParts == SeqsUpTo(OpenTagAlphabet, MaxBody)

\* An opening <response> tag with no closing tag anywhere.
OpenTagInputs ==
    { a \o <<"OPEN">> \o b : a \in OpenTagParts, b \in OpenTagParts }

\* What stands before a drafted line and between its quotes.
DraftAlphabet == {"HELLO", "HI", "SP", "NL", "TAG", "LMT", "QUOTE"}
DraftParts == SeqsUpTo(DraftAlphabet, MaxBody)

\* A draft: She might say: "Q", after some text.
DraftInputs ==
    { a \o <<"SHE", "SP", "QUOTE">> \o q \o <<"QUOTE">> :
        a \in DraftParts, q \in DraftParts }

ShapeInputs == BlockInputs \cup OpenTagInputs \cup DraftInputs

InitShapes ==
    /\ text \in ShapeInputs
    /\ res = NoRes
    /\ character_context = Character("Kaiya Starling")
    /\ character_filename = FileName("KaiyaStarling")
    /\ environment_context = Environment
    /\ environment_filename = FileName("environment")
    /\ store = [c \in Collections |-> <<>>]
    /\ reply = NoReply
    /\ assets = NoAssets
    /\ bulk = NoBulk
    /\ turn = NoTurn
    /\ json_dir = JSONDataWith(character_context)

SpecShapes == InitShapes /\ [][NextExtract]_vars

(***************************************************************************)
(* extract_character_response called directly on clean text: no tag, no    *)
(* special token, nothing that steps 1 to 4 or the last resort strip       *)
(***************************************************************************)
\* The longest clean text, in tokens.
MaxClean == 4

CleanAlphabet ==
    {"HELLO", "HI", "LOWER", "SP", "NL", "DOT", "WNR", "SHE", "QUOTE"}

\* Clean texts, and clean texts quoted in a draft: She might say:"Q".
CleanInputs ==
    SeqsUpTo(CleanAlphabet, MaxClean)
    \cup { <<"SHE", "QUOTE">> \o q \o <<"QUOTE">> :
             q \in SeqsUpTo(CleanAlphabet \ {"SHE", "QUOTE"}, MaxClean) }

InitClean ==
    /\ text \in CleanInputs
    /\ res = NoRes
    /\ character_context = Character("Kaiya Starling")
    /\ character_filename = FileName("KaiyaStarling")
    /\ environment_context = Environment
    /\ environment_filename = FileName("environment")
    /\ store = [c \in Collections |-> <<>>]
    /\ reply = NoReply
    /\ assets = NoAssets
    /\ bulk = NoBulk
    /\ turn = NoTurn
    /\ json_dir = JSONDataWith(character_context)

SpecClean == InitClean /\ [][NextExtract]_vars

(***************************************************************************)
(* /chat step by step on the event loop, with /config/character/load       *)
(* requests arriving at any moment                                         *)
(***************************************************************************)
\* The most load requests waiting for the event loop at one time.
MaxPending == 1

\* The handler gives the event loop back at this position.  chat is an
\* async def without a single await (the memory query and requests.post are
\* blocking calls), so it never does.  YieldsAtCalls is the handler it would be
\* with the memory query and the provider call awaited.
YieldsAtCalls(pc) == pc \in {"prompt", "store"}
Yields(pc) == FALSE

\* The event loop can start another handler: no /chat coroutine is on it, or
\* the one that is has given it back.
LoopFree == turn.pc = "idle" \/ Yields(turn.pc)

InitTurn ==
    /\ text = <<>>
    /\ res = NoRes
    /\ character_context = Character("Kaiya Starling")
    /\ character_filename = FileName("KaiyaStarling")
    /\ environment_context = Environment
    /\ environment_filename = FileName("environment")
    /\ store = [c \in Collections |-> <<>>]
    /\ reply = NoReply
    /\ assets = NoAssets
    /\ bulk = NoBulk
    /\ turn = NoTurn
    /\ json_dir = JSONDataWith(character_context)

\* The load requests of these runs: Bob inline with a full appearance, with
\* an appearance that holds none of the keys the prompt reads and with a
\* string for it, an object without "name", KaiyaStarling.json and a file
\* that does not exist.
TurnLoadRequests ==
    {[inline |-> TRUE, filename |-> <<>>,
      character |-> CharacterOf("Bob", [WellFormedCharacterKinds
                                           EXCEPT !["appearance"] = k])] :
        k \in {"object", "object_other", "text"}}
    \cup {r \in ShapedLoadRequests :
             ~r.inline \/ r.character = NamelessCharacter}

\* A POST /config/character/load arrives; it waits for the event loop.
LoadArrives ==
    /\ Len(turn.pending) < MaxPending
    /\ \E req \in TurnLoadRequests :
          turn' = [turn EXCEPT !.pending = Append(@, req)]
    /\ UNCHANGED <<json_dir, text, res, character_context, character_filename,
                   environment_context, environment_filename, store, reply,
                   assets, bulk>>

\* Lines 488-515: the event loop runs load_character for the oldest waiting
\* request, from its first line to its return (it has no await either).
LoadRuns ==
    /\ LoopFree
    /\ turn.pending # <<>>
    /\ LET r == load_character(Head(turn.pending), character_context,
                               character_filename, json_dir)
       IN  /\ character_context' = r.character_context
           /\ character_filename' = r.character_filename
    /\ turn' = [turn EXCEPT !.pending = Tail(@)]
    /\ UNCHANGED <<json_dir, text, res, environment_context, environment_filename, store,
                   reply, assets, bulk>>

\* Lines 1079-1082: the guard, and character_name read from the global.
\* character records the object that was active at that moment.
TurnStart ==
    /\ turn.pc = "idle"
    /\ TotalDocs(store, Collections) < MaxDocs
    /\ LET who == ChatCharacterName(character_context)
       IN  turn' = IF who.ok
                   THEN [turn EXCEPT !.pc = "recall",
                                     !.character = character_context,
                                     !.name = who.name]
                   ELSE [turn EXCEPT !.pc = "done", !.status = 500,
                                     !.character = character_context]
    /\ UNCHANGED <<json_dir, text, res, character_context, character_filename,
                   environment_context, environment_filename, store, reply,
                   assets, bulk>>

\* Lines 1084-1127: the memory collection, named after character_name.
TurnRecall ==
    /\ turn.pc = "recall"
    /\ \E chroma \in ChatChroma :
          turn' = [turn EXCEPT
                     !.pc = "prompt",
                     !.collection =
                         MemoryQuery(turn.name, "hi", chroma, store).collection]
    /\ UNCHANGED <<json_dir, text, res, character_context, character_filename,
                   environment_context, environment_filename, store, reply,
                   assets, bulk>>

\* Lines 1129-1237: the prompt, its profile read from the global again.
TurnPrompt ==
    /\ turn.pc = "prompt"
    /\ LET p == Prompt(character_context, environment_context,
                       [message |-> "hi", history |-> <<>>], turn.name)
       IN  turn' = IF p.raised
                   THEN [turn EXCEPT !.pc = "done", !.status = 500]
                   ELSE [turn EXCEPT !.pc = "provider", !.profile = p.profile]
    /\ UNCHANGED <<json_dir, text, res, character_context, character_filename,
                   environment_context, environment_filename, store, reply,
                   assets, bulk>>

\* What the provider does in these turns: no API key, a failing call, a
\* response that is stored, one that is too short to be stored.
TurnProviderOutcomes ==
    RecallProviderOutcomes \cup {[kind |-> "no_key", text |-> <<>>]}

\* Lines 1239-1279: the provider call and the extraction.  Without an API
\* key line 1241 raises before the payload and its stop sequence (line 1255,
\* built from character_name) exist; a failing call or a response of another
\* shape raises after them; every exception is answered 500 (line 1279).
TurnProvider ==
    /\ turn.pc = "provider"
    /\ \E prov \in TurnProviderOutcomes :
          LET p == ProviderCall(prov)
              x == ChatExtract(p.raw)
          IN  turn' = IF prov.kind = "no_key"
                      THEN [turn EXCEPT !.pc = "done", !.status = 500]
                      ELSE IF p.failed \/ x.raised
                      THEN [turn EXCEPT !.pc = "done", !.stop = turn.name,
                                        !.status = 500]
                      ELSE [turn EXCEPT !.pc = "store", !.stop = turn.name,
                                        !.output = x.out]
    /\ UNCHANGED <<json_dir, text, res, character_context, character_filename,
                   environment_context, environment_filename, store, reply,
                   assets, bulk>>

\* Lines 1281-1304: the output that passes the gate is added to the
\* collection the turn opened; a failing add changes nothing, and the turn
\* answers 200 either way.
TurnStore ==
    /\ turn.pc = "store"
    /\ \E addOk \in BOOLEAN :
          store' = IF ShouldStore(turn.output, turn.collection) /\ addOk
                   THEN [store EXCEPT ![turn.collection] = Append(@, turn.output)]
                   ELSE store
    /\ turn' = [turn EXCEPT !.pc = "done", !.status = 200]
    /\ UNCHANGED <<json_dir, text, res, character_context, character_filename,
                   environment_context, environment_filename, reply,
                   assets, bulk>>

\* Lines 1306-1308 (or the exception leaving the handler): the coroutine
\* ends; whatever it added to the store was added at line 1298, before.
TurnReturn ==
    /\ turn.pc = "done"
    /\ turn' = [NoTurn EXCEPT !.pending = turn.pending]
    /\ UNCHANGED <<json_dir, text, res, character_context, character_filename,
                   environment_context, environment_filename, store, reply,
                   assets, bulk>>

NextTurn ==
    \/ LoadArrives \/ LoadRuns
    \/ TurnStart \/ TurnRecall \/ TurnPrompt \/ TurnProvider \/ TurnStore
    \/ TurnReturn

SpecTurn == InitTurn /\ [][NextTurn]_vars

(***************************************************************************)
(* extract_character_response called directly on texts with bare angle     *)
(* brackets around and inside the tags                                     *)
(***************************************************************************)
\* The longest text with bare angle brackets, in tokens.
MaxTagLen == 5

TagAlphabet == {"LT", "GT", "OPEN", "CLOSE", "NL", "HELLO", "SPECIAL"}
TagQuoted == SeqsUpTo({"LT", "GT", "HELLO", "TAG", "SP"}, MaxTagLen - 2)

\* Texts over the brackets and tags, and drafts quoting them:
\* She might say:"Q".
TagInputs ==
    SeqsUpTo(TagAlphabet, MaxTagLen)
    \cup { <<"SHE", "QUOTE">> \o q \o <<"QUOTE">> : q \in TagQuoted \ {<<>>} }

InitTags ==
    /\ text \in TagInputs
    /\ res = NoRes
    /\ character_context = Character("Kaiya Starling")
    /\ character_filename = FileName("KaiyaStarling")
    /\ environment_context = Environment
    /\ environment_filename = FileName("environment")
    /\ store = [c \in Collections |-> <<>>]
    /\ reply = NoReply
    /\ assets = NoAssets
    /\ bulk = NoBulk
    /\ turn = NoTurn
    /\ json_dir = JSONDataWith(character_context)

SpecTags == InitTags /\ [][NextExtract]_vars

(***************************************************************************)
(* _strip_leading_meta_lines called on its own                             *)
(***************************************************************************)
StripAlphabet == {"NL", "SP", "DOT", "DOTS", "MSURE", "SAFE", "HELLO", "TUA"}
StripInputs == SeqsUpTo(StripAlphabet, MaxLen)

InitStrip ==
    /\ text \in StripInputs
    /\ res = NoRes
    /\ character_context = Character("Kaiya Starling")
    /\ character_filename = FileName("KaiyaStarling")
    /\ environment_context = Environment
    /\ environment_filename = FileName("environment")
    /\ store = [c \in Collections |-> <<>>]
    /\ reply = NoReply
    /\ assets = NoAssets
    /\ bulk = NoBulk
    /\ turn = NoTurn
    /\ json_dir = JSONDataWith(character_context)

\* One call of the stripper (step 4 of the cascade) on text.
StripLeadingMetaLines ==
    /\ ~res.called
    /\ res' = [called |-> TRUE, raised |-> FALSE, step |-> 4,
               out |-> strip_leading_meta_lines(text)]
    /\ UNCHANGED <<json_dir, turn, assets, bulk, text, character_context, character_filename,
                 environment_context, environment_filename, store, reply>>

NextStrip == StripLeadingMetaLines

SpecStrip == InitStrip /\ [][NextStrip]_vars

(***************************************************************************)
(* Properties                                                              *)
(***************************************************************************)
Count(seq, x) == Cardinality({i \in 1..Len(seq) : seq[i] = x})

IndexOf(seq, x) == MinOf({i \in 1..Len(seq) : seq[i] = x})

\* The text is <response>A</response>R: one opening tag, at the start, one
\* closing tag, and after it a non-empty R that holds reasoning text.
TaggedThenReasoning(s) ==
    /\ Len(s) >= 3
    /\ s[1] = "OPEN"
    /\ Count(s, "OPEN") = 1
    /\ Count(s, "CLOSE") = 1
    /\ IndexOf(s, "CLOSE") < Len(s)
    /\ LooksLikeReasoning(From(s, IndexOf(s, "CLOSE") + 1))

\* The A of such a text.
BlockOf(s) == SubSeq(s, 2, IndexOf(s, "CLOSE") - 1)

\* C1: for every input that holds exactly one well-formed <response>A</response>
\* block followed by trailing reasoning text, extract_character_response returns
\* exactly A trimmed: none of the trailing text, nothing of A removed.
C1_TagPriority ==
    (res.called /\ TaggedThenReasoning(text)) => res.out = Strip(BlockOf(text))

\* C2: for every input with no <response> tag and no "might say" draft, the
\* string extract_character_response returns holds none of the reasoning
\* indicators of line 692, also when every line of the input is reasoning text.
C2_NoLeakedMetaText ==
    (res.called /\ Count(text, "OPEN") = 0 /\ Count(text, "SHE") = 0)
        => /\ res.step \in {8, 9}
           /\ ~LooksLikeReasoning(res.out)

\* C3: extract_character_response is total: for every input string it returns a
\* string and never raises, and the step that returns is one of the cascade's
\* five, the last resort being the last.
C3_NeverRaises ==
    res.called => /\ ~res.raised
                  /\ res.step \in 5..9
                  /\ res.out \in Seq(Token)

\* C3 witness: a whitespace-only input went through to the last resort and came
\* back as the empty string.
C3_Witness ==
    /\ res.called
    /\ text # <<>>
    /\ \A i \in 1..Len(text) : IsWs(text[i])
    /\ res.step = 9
    /\ res.out = <<>>
    /\ ~res.raised

\* The /chat turn got <response>A</response> from the provider, with an active
\* character and the memory store unavailable.
TaggedTurn ==
    /\ reply.op = "chat"
    /\ reply.name # ""
    /\ reply.chroma = "no_client"
    /\ reply.provider = "text"
    /\ Len(reply.raw) >= 3
    /\ reply.raw[1] = "OPEN"
    /\ reply.raw[Len(reply.raw)] = "CLOSE"
    /\ Count(reply.raw, "OPEN") = 1
    /\ Count(reply.raw, "CLOSE") = 1

\* The A of that turn.
TurnLine == SubSeq(reply.raw, 2, Len(reply.raw) - 1)

\* A token no step of the cascade removes or reacts to.
IsPlainToken(t) ==
    t \in {"HELLO", "HI", "W5", "W6", "LOWER", "L994", "WNR", "TUS", "SP"}

\* C4 as claimed: with an active character and the memory store unavailable,
\* when the provider returns <response>A</response>, /chat answers 200 with
\* response exactly A and no tag left, for every non-empty A, lines shorter
\* than 5 characters included.
C4_Original ==
    TaggedTurn =>
        /\ reply.status = 200
        /\ reply.response = Strip(TurnLine)
        /\ \A i \in 1..Len(reply.response) : ~IsTag(reply.response[i])

\* C4 as amended: the response is exactly A (trimmed), with no tag left, for
\* every single-line A of at least 5 characters that holds nothing the
\* extraction strips (no tag, reasoning marker, directive or meta phrase); a
\* shorter such A comes back as the raw provider text, tags included.
C4_TaggedLineReturned ==
    (/\ TaggedTurn
     /\ \A i \in 1..Len(TurnLine) : IsPlainToken(TurnLine[i]))
        => /\ reply.status = 200
           /\ CharLen(Strip(TurnLine)) >= 5 =>
                 /\ reply.response = Strip(TurnLine)
                 /\ \A i \in 1..Len(reply.response) : ~IsTag(reply.response[i])
           /\ CharLen(Strip(TurnLine)) < 5 => reply.response = reply.raw

\* C4 witness: a 5-character line came back as it was sent.
C4_Witness ==
    /\ TaggedTurn
    /\ TurnLine = <<"W5">>
    /\ reply.status = 200
    /\ reply.response = <<"W5">>

\* C5: every document added to the memory store is the extraction of that
\* turn's raw provider text, holds no pollution substring and is under the
\* length ceiling; raw provider text that differs from its extraction is never
\* stored.
C5_OnlyExtractionStored ==
    \A i \in 1..Len(reply.added) :
        /\ reply.added[i] = extract_character_response(reply.raw)
        /\ ~HasReasoningPattern(reply.added[i])
        /\ CharLen(reply.added[i]) < 1000

\* C6: a /chat turn issues at most one memory-add call, after the provider call
\* and the extraction, only for a response that holds no pollution substring,
\* is shorter than 1000 characters and has a collection handle, and the
\* document added is the response returned.
C6_AddOnlyCleanResponse ==
    reply.op = "chat" =>
        /\ Count(reply.calls, "add") <= 1
        /\ Len(reply.added) = Count(reply.calls, "add")
        /\ Count(reply.calls, "add") = 1 =>
              /\ reply.status = 200
              /\ Count(reply.calls, "requests.post") = 1
              /\ IndexOf(reply.calls, "requests.post") < IndexOf(reply.calls, "add")
              /\ reply.calls[Len(reply.calls)] = "add"
              /\ ~HasReasoningPattern(reply.added[1])
              /\ CharLen(reply.added[1]) < 1000
              /\ Count(reply.calls, "get_or_create_collection") = 1
              /\ reply.chroma \in {"ok", "query_fails"}
              /\ reply.added[1] = reply.response
        /\ reply.stored => Count(reply.calls, "add") = 1

\* C6 witness: a turn added its response to the store.
C6_Witness ==
    /\ reply.op = "chat"
    /\ reply.stored
    /\ reply.added = <<reply.response>>
    /\ store[CollectionName(reply.name)] # <<>>

\* C7: with a collection handle, every response of 5 to 1000 characters
\* (inclusive) that holds no pollution substring causes a memory-add call.
C7_EveryCleanResponseAdded ==
    (/\ reply.op = "chat"
     /\ reply.status = 200
     /\ reply.chroma \in {"ok", "query_fails"}
     /\ ~HasReasoningPattern(reply.response)
     /\ CharLen(reply.response) >= 5
     /\ CharLen(reply.response) <= 1000)
        => Count(reply.calls, "add") = 1

\* C8: a /chat turn calls the completion provider at most once; when the call
\* fails the turn ends with a 500 carrying the underlying message, and no
\* memory-add call is issued.
C8_ProviderFailureIsFinal ==
    reply.op = "chat" =>
        /\ Count(reply.calls, "requests.post") <= 1
        /\ (reply.name # "" /\ reply.provider # "text") =>
              /\ reply.status = 500
              /\ reply.detail = <<"Error generating response", reply.provider>>
              /\ Count(reply.calls, "add") = 0
              /\ reply.added = <<>>
              /\ ~reply.stored

\* C8 witness: the provider answered with an HTTP error, once.
C8_Witness ==
    /\ reply.op = "chat"
    /\ reply.provider = "http_error"
    /\ reply.status = 500
    /\ Count(reply.calls, "requests.post") = 1

\* C9: a failure to get the memory client, to get the collection or to query it
\* leaves the turn with an empty memory context; the provider is still called,
\* the turn answers 200 when the provider answers, and the only error that can
\* reach the caller is the provider's.
C9_MemoryFailureDegrades ==
    (reply.op = "chat" /\ reply.name # "" /\ reply.chroma # "ok") =>
        /\ reply.memory_context = <<>>
        /\ reply.provider # "no_key" => Count(reply.calls, "requests.post") = 1
        /\ reply.provider = "text" => reply.status = 200
        /\ reply.status # 200 =>
              reply.detail = <<"Error generating response", reply.provider>>

\* C9 witness: the query failed on a collection that holds a document, and the
\* turn answered 200.
C9_Witness ==
    /\ reply.op = "chat"
    /\ reply.chroma = "query_fails"
    /\ reply.status = 200
    /\ TotalDocs(store, Collections) > 0
    /\ reply.memory_context = <<>>

\* C10: without an active character /chat fails with a 500 before any memory
\* query, provider call or memory add.
C10_NoCharacterNoCalls ==
    (reply.op = "chat" /\ CharacterMissing(character_context)) =>
        /\ reply.status = 500
        /\ reply.calls = <<>>
        /\ reply.added = <<>>
        /\ ~reply.stored

\* C10 witness: such a turn was refused.
C10_Witness ==
    /\ reply.op = "chat"
    /\ CharacterMissing(character_context)
    /\ reply.status = 500
    /\ reply.detail = <<"Character context not loaded.">>

\* C11: a failing memory-add call is swallowed: the turn answers 200 with the
\* response it would have given had the add succeeded, and carries no error.
C11_AddFailureSwallowed ==
    (reply.op = "chat" /\ Count(reply.calls, "add") = 1 /\ ~reply.stored) =>
        /\ reply.status = 200
        /\ reply.detail = <<>>
        /\ reply.response =
              chat(character_context, environment_context,
                   [message |-> "hi", history |-> reply.history], reply.chroma,
                   [kind |-> "text", text |-> reply.raw], TRUE, store).response
        /\ chat(character_context, environment_context,
                [message |-> "hi", history |-> reply.history], reply.chroma,
                [kind |-> "text", text |-> reply.raw], TRUE, store).stored

\* C11 witness: the add was attempted and failed, the turn answered 200 and
\* the store did not get the document.
C11_Witness ==
    /\ reply.op = "chat"
    /\ Count(reply.calls, "add") = 1
    /\ ~reply.stored
    /\ reply.status = 200
    /\ reply.response = <<"HELLO">>
    /\ store[CollectionName(reply.name)] = <<>>

\* The closed <response> blocks of the input, as line 642 would find them in it.
InputBlocks == response_blocks(text)

\* C12: when the input holds several closed <response> blocks, a placeholder
\* block is never the one returned if some block is not a placeholder, and when
\* every block is a placeholder one of them is returned, not discarded.
C12_PlaceholderNeverSelected ==
    (res.called /\ Len(InputBlocks) >= 2) =>
        IF \E i \in 1..Len(InputBlocks) : ~is_placeholder(Strip(InputBlocks[i]))
        THEN ~is_placeholder(res.out)
        ELSE \E i \in 1..Len(InputBlocks) : res.out = Strip(InputBlocks[i])

\* The input holds an opening <response> tag and no closed block.
UnclosedTag ==
    /\ Count(text, "OPEN") >= 1
    /\ InputBlocks = <<>>

\* What follows the first opening tag of the input, to the end of the string.
AfterOpenTag == From(text, IndexOf(text, "OPEN") + 1)

\* C13: for every input with an opening <response> tag and no closed block,
\* extract_character_response returns what follows the opening tag (trimmed,
\* tags and special tokens stripped, leading meta lines stripped) and nothing
\* of what precedes the tag, also when nothing follows the tag.
C13_UnterminatedTag ==
    (res.called /\ UnclosedTag) =>
        res.out = strip_leading_meta_lines(
                      StripSpecial(StripTags(Strip(AfterOpenTag))))

\* The input holds no <response> tag and a draft: she/he/they might say: "Q".
HoldsDraft ==
    /\ Count(text, "OPEN") = 0
    /\ DraftedAt(text) # <<0, 0>>

\* C14: for every input with no <response> tag that holds such a draft,
\* extract_character_response returns Q trimmed with tags stripped, from the
\* drafted-dialogue step, ahead of the first-substantial-line and last-resort
\* steps.
C14_DraftedDialogue ==
    (res.called /\ HoldsDraft) =>
        /\ res.step = 7
        /\ res.out = FromDraft(text)

\* A token that is no angle-bracket tag, no special token and none of the
\* reasoning, directive or meta markers that steps 1-4 and the last resort strip.
IsCleanToken(t) ==
    t \in {"NL", "SP", "HELLO", "HI", "W5", "W6", "LOWER", "L994", "WNR", "TUS",
           "DOTS", "DOT", "IM", "SHE", "QUOTE"}

CleanText == \A i \in 1..Len(text) : IsCleanToken(text[i])

\* C15 as claimed: for every input with no tag, no special token and none of
\* the markers the cascade strips, extracting the extraction gives the
\* extraction again.
C15_Original ==
    (res.called /\ CleanText) => ExtractRun(res.out).out = res.out

\* C15 as amended: the same for every such input that holds no drafted
\* dialogue (she/he/they might say: "...") either.
C15_IdempotentOnClean ==
    (res.called /\ CleanText /\ DraftedAt(text) = <<0, 0>>)
        => ExtractRun(res.out).out = res.out

\* C15 witness: a clean multi-line text whose extraction is a proper part of
\* it, and extracting that part gives the part again.
C15_Witness ==
    /\ res.called
    /\ CleanText
    /\ DraftedAt(text) = <<0, 0>>
    /\ Count(text, "NL") >= 1
    /\ res.step = 8
    /\ res.out # <<>>
    /\ res.out # text
    /\ ExtractRun(res.out).out = res.out

\* C16: the leading-meta-line stripper is idempotent: applied to its own
\* output it returns that output unchanged.
C16_StripperIdempotent ==
    res.called => strip_leading_meta_lines(res.out) = res.out

\* C16 witness: the stripper dropped two leading meta lines and kept the rest,
\* and a second pass leaves that rest as it is.
C16_Witness ==
    /\ res.called
    /\ res.step = 4
    /\ Len(text) >= 5
    /\ IsMetaLine(<<text[1]>>)
    /\ text[2] = "NL"
    /\ IsMetaLine(<<text[3]>>)
    /\ text[4] = "NL"
    /\ res.out = From(text, 5)
    /\ res.out # <<>>
    /\ strip_leading_meta_lines(res.out) = res.out

\* The turn got as far as the memory lookup.
Recalled == reply.op = "chat" /\ reply.name # ""

\* The memory context is the first two of the query results whose index is
\* in E, in result order, joined by a newline.
FirstTwoOf(E) ==
    reply.memory_context =
        IF E = {} THEN <<>>
        ELSE IF Cardinality(E) = 1 THEN reply.results[MinOf(E)]
        ELSE reply.results[MinOf(E)] \o <<"NL">>
             \o reply.results[MinOf(E \ {MinOf(E)})]

\* C17 as claimed: the memory context is exactly the first two, in query
\* result order, of the retrieved documents that hold no pollution substring
\* and are at most 500 characters long.
C17_Original ==
    Recalled =>
        FirstTwoOf({i \in 1..Len(reply.results) :
                      /\ ~HasReasoningPattern(reply.results[i])
                      /\ CharLen(reply.results[i]) <= 500})

\* C17 as amended: the same among the retrieved documents that are non-empty;
\* no pollution substring and no document longer than 500 characters appears
\* in the context, and never more than two documents.
C17_FirstTwoCleanDocuments ==
    Recalled =>
        /\ FirstTwoOf({i \in 1..Len(reply.results) :
                         /\ reply.results[i] # <<>>
                         /\ ~HasReasoningPattern(reply.results[i])
                         /\ CharLen(reply.results[i]) <= 500})
        /\ ~HasReasoningPattern(reply.memory_context)
        /\ Count(reply.memory_context, "NL") <= 1
        /\ \A k \in 1..Len(SplitNL(reply.memory_context)) :
              CharLen(SplitNL(reply.memory_context)[k]) <= 500

\* C17 witness: four documents came back, a polluted one first and a
\* 500-character one second; the context is the second and third, and the
\* fourth, clean as well, is left out.
C17_Witness ==
    /\ Recalled
    /\ Len(reply.results) = 4
    /\ HasReasoningPattern(reply.results[1])
    /\ CharLen(reply.results[2]) = 500
    /\ reply.results[3] = <<"W6">>
    /\ reply.results[4] = <<"HELLO">>
    /\ reply.memory_context = reply.results[2] \o <<"NL">> \o reply.results[3]

\* The well-formed entries among the last ten of the request's history:
\* their positions, and the position of the k-th of them.
WindowTurns ==
    {i \in (IF Len(reply.history) > 10 THEN Len(reply.history) - 9 ELSE 1)
               ..Len(reply.history) : Len(reply.history[i]) >= 2}
WindowTurn(k) ==
    CHOOSE i \in WindowTurns : Cardinality({j \in WindowTurns : j < i}) = k - 1

\* C18: the conversation history of the prompt is made of the turns among
\* the last ten of the request's history, oldest first, each as a Player
\* line followed by the character's line, and of nothing else.
C18_HistoryWindow ==
    (reply.op = "chat" /\ reply.prompt_built) =>
        /\ Len(reply.conversation_history) = 7 * Cardinality(WindowTurns)
        /\ Cardinality(WindowTurns) <= 10
        /\ \A k \in 1..Cardinality(WindowTurns) :
              SubSeq(reply.conversation_history, 7 * (k - 1) + 1, 7 * k) =
                  <<"Player: ", reply.history[WindowTurn(k)][1], "\n",
                    reply.name, ": ", reply.history[WindowTurn(k)][2], "\n\n">>

\* C18 witness: a turn with twelve well-formed turns of history; the prompt
\* holds ten, from the third to the twelfth.
C18_Witness ==
    /\ reply.op = "chat"
    /\ reply.prompt_built
    /\ Len(reply.history) = 12
    /\ \A i \in 1..12 : Len(reply.history[i]) = 2
    /\ Len(reply.conversation_history) = 70
    /\ reply.conversation_history[2] = "p03"
    /\ reply.conversation_history[69] = "c12"

\* C19: with an active character and environment that load validation
\* accepts, the prompt is assembled and the request goes to the provider.
C19_PromptAssemblyNeverFails ==
    (/\ reply.op = "chat"
     /\ looks_like_character(character_context)
     /\ looks_like_environment(environment_context)) =>
        /\ reply.prompt_built
        /\ Count(reply.calls, "requests.post") = 1

\* C20: a clear that reads a non-empty collection issues one delete call for
\* all its documents and leaves it empty; a clear that reads an empty one
\* issues no delete call and reports success with "No history found".
C20_ClearHistoryOneBatch ==
    [][(reply.op = "none" /\ reply'.op = "clear_history" /\ reply'.name # ""
        /\ reply'.chroma \in {"ok", "delete_fails"}) =>
          IF Len(store[CollectionName(reply'.name)]) > 0
          THEN /\ Count(reply'.calls, "delete") = 1
               /\ reply'.chroma = "ok" =>
                     /\ reply'.success
                     /\ reply'.deleted = Len(store[CollectionName(reply'.name)])
                     /\ store'[CollectionName(reply'.name)] = <<>>
          ELSE /\ Count(reply'.calls, "delete") = 0
               /\ reply'.success
               /\ reply'.detail = <<"No history found">>
               /\ store' = store]_vars

\* C20 witness: a clear deleted the two documents of the collection in one
\* call.
C20_Witness ==
    /\ reply.op = "clear_history"
    /\ reply.success
    /\ reply.deleted = 2
    /\ Count(reply.calls, "delete") = 1
    /\ store[CollectionName(reply.name)] = <<>>

\* The messages a clear that did not happen is reported with.
ClearDiagnostics ==
    {"Error clearing history", "ChromaDB Cloud API version issue",
     "Error connecting to ChromaDB"}

\* C21: a /clear-history request always answers 200 with a message; it
\* reports success only when the collection is empty afterwards, and in every
\* other case (no active character, store unreachable, deprecated API, get or
\* delete failing) success is false and the message is a diagnostic.
C21_ClearHistoryAlways200 ==
    reply.op = "clear_history" =>
        /\ reply.status = 200
        /\ reply.detail # <<>>
        /\ reply.success =>
              /\ reply.chroma \in {"ok", "delete_fails"}
              /\ store[CollectionName(reply.name)] = <<>>
        /\ ~reply.success =>
              /\ reply.detail[1] \in ClearDiagnostics
              /\ reply.deleted = 0
        /\ (\/ CharacterMissing(character_context)
            \/ "name" \notin character_context.keys
            \/ reply.chroma \in {"no_client", "gone", "no_collection", "get_fails"})
              => ~reply.success

\* C21 witness: the store answered 410 Gone and the clear answered 200 with
\* success=false and the API-version message.
C21_Witness ==
    /\ reply.op = "clear_history"
    /\ reply.chroma = "gone"
    /\ reply.name # ""
    /\ reply.status = 200
    /\ ~reply.success
    /\ reply.detail = <<"ChromaDB Cloud API version issue">>

\* C22: after a load request, accepted or rejected, the active character
\* holds every required key.
C22_ActiveCharacterHasRequiredKeys ==
    reply.op = "load_character" => looks_like_character(character_context)

\* Every character task has started its completion call.
AllStarted == \A i \in 1..Len(bulk.pc) : bulk.pc[i] # "waiting"

\* C23: at every moment at most five completion calls are in flight, and
\* once the tasks are created every one of them starts its call, whichever
\* calls fail.
C23_BoundedConcurrency ==
    /\ [](Cardinality(InFlight) <= 5)
    /\ [](bulk.permits = 5 - Cardinality(InFlight))
    /\ (bulk.phase = "gathering") ~> AllStarted

\* C23 witness: five calls are in flight, a sixth task waits, and the last
\* of the six starts after an earlier call failed.
C23_Witness ==
    /\ Len(bulk.pc) = 6
    /\ bulk.pc[1] = "failed"
    /\ bulk.pc[6] = "calling"
    /\ Cardinality(InFlight) = 5

\* C24: a task whose completion call failed has no entry among the
\* characters instruction returns.
C24_FailedTaskExcluded ==
    bulk.phase = "returned" =>
        \A k \in 1..Len(bulk.characters) :
            bulk.pc[bulk.characters[k].task] # "failed"

\* C25: a GET of an asset with temporary metadata answers 200 before
\* expires_at and leaves the directory alone; at or after expires_at it
\* answers 404 and removes the asset file and the metadata file; an asset
\* without metadata is served whatever the time; an id whose file is gone
\* never gets a file again, so every later request for it answers 404; and
\* no step, the scheduled cleanup included, removes a file that has no
\* metadata or is still before its expires_at.
C25_TemporaryAssetExpiry ==
    [][/\ (reply.op = "none" /\ reply'.op \in {"get_asset", "download_asset"}) =>
            IF assets.meta[reply'.asset_id] # NoMeta
            THEN IF assets.now < assets.meta[reply'.asset_id]
                 THEN /\ reply'.status = 200
                      /\ assets' = assets
                 ELSE /\ reply'.status = 404
                      /\ reply'.asset_id \notin assets'.files
                      /\ assets'.meta[reply'.asset_id] = NoMeta
            ELSE /\ reply'.status = (IF reply'.asset_id \in assets.files
                                    THEN 200 ELSE 404)
                 /\ assets' = assets
       /\ \A id \in 1..assets.issued :
            id \notin assets.files =>
                /\ id \notin assets'.files
                /\ assets'.meta[id] = NoMeta
       /\ \A id \in assets.files \ assets'.files :
            /\ assets.meta[id] # NoMeta
            /\ assets.now >= assets.meta[id]]_vars

\* C25 witness: a request at or after expires_at was answered 404 Asset
\* expired and both files of the asset are gone.
C25_Witness ==
    /\ reply.op \in {"get_asset", "download_asset"}
    /\ reply.status = 404
    /\ reply.detail = <<"Asset expired">>
    /\ reply.asset_id \notin assets.files
    /\ assets.meta[reply.asset_id] = NoMeta
    /\ assets.ttl > 0

\* C26: the response of a turn that answers 200 is the extraction of the raw
\* provider text when that has at least 5 characters and the trimmed raw text
\* otherwise; the second extraction run gives what the first gave, so the
\* fallback decided on the first run alone is the one returned.
C26_ExtractionOrRawText ==
    (reply.op = "chat" /\ reply.status = 200) =>
        /\ reply.response =
              IF CharLen(extract_character_response(reply.raw)) >= 5
              THEN extract_character_response(reply.raw)
              ELSE Strip(reply.raw)
        /\ reply.response =
              ChatFallback(reply.raw, ExtractRun(reply.raw),
                           [raised |-> FALSE, out |-> <<>>]).out

\* C26 witness: the extraction of <response>Hi.</response> has 3 characters
\* and the turn answered the raw text, tags included.
C26_Witness ==
    /\ reply.op = "chat"
    /\ reply.status = 200
    /\ reply.raw = <<"OPEN", "HI", "CLOSE">>
    /\ extract_character_response(reply.raw) = <<"HI">>
    /\ reply.response = <<"OPEN", "HI", "CLOSE">>

(***************************************************************************)
(* Reasoning-block and directive-line removal                              *)
(***************************************************************************)
\* The reasoning markers of lines 629-633, as tokens.
ReasoningMarkers == {"HAMR", "LMT", "OKLETS"}

\* The planner directives of lines 635-638, as tokens.
DirectivePhrases == {"OKNEED", "TUA", "MWRAP", "SOANS"}

\* C27: reasoning-block removal deletes everything from the first reasoning
\* marker to the end of the whole string, the following lines included: what
\* is left of a text holding a marker is the text before its first marker.
C27_ReasoningCutToEndOfString ==
    LET M == {i \in 1..Len(text) : text[i] \in ReasoningMarkers}
    IN  (res.called /\ M # {}) =>
            StripReasoning(text) = SubSeq(text, 1, MinOf(M) - 1)

\* C28: directive-line removal drops only leading lines: a text that starts
\* with a kept line that is no directive comes out of the removal unchanged,
\* whatever directive lines follow.
C28_DirectivesOnlyLeading ==
    LET s == StripReasoning(StripPreface(text))
    IN  (res.called /\ s # <<>> /\ ~IsWs(s[1]) /\ s[1] \notin DirectivePhrases)
            => StripDirectives(s) = s

(***************************************************************************)
(* No tag in the extracted text                                            *)
(***************************************************************************)
\* re.search(r'<[^>]+>', s) finds something: a tag token, or a bare "<" with a
\* '>' somewhere after it that is not the very next character.
HasTag(s) ==
    \E i \in 1..Len(s) :
        \/ IsTag(s[i])
        \/ /\ s[i] = "LT"
           /\ i < Len(s)
           /\ s[i + 1] # "GT"
           /\ \E j \in i + 1..Len(s) : HasGt(s[j])

\* C29: whichever step of the cascade returned, the text that
\* extract_character_response returns holds no tag <...> with non-empty
\* content: no <response> or </response>, no <|...|> token, and no tag put
\* together from a bare "<", what the stripping left, and a later '>'.
C29_NoTagInOutput ==
    (res.called /\ ~res.raised) =>
        /\ ~HasTag(res.out)
        /\ \A i \in 1..Len(res.out) : ~IsTag(res.out[i])

\* A tagged block whose body holds a bare "<" in front of a tag: the bracket
\* and the tag go together and the dialogue is returned.
C29_Witness ==
    /\ res.called /\ ~res.raised
    /\ text = <<"OPEN", "LT", "OPEN", "HELLO", "CLOSE">>
    /\ res.step = 5
    /\ res.out = <<"HELLO">>

(***************************************************************************)
(* One character per turn                                                  *)
(***************************************************************************)
\* C30: whatever load requests arrive while a /chat turn runs, the turn uses
\* one character object from start to end: the active character stays the
\* one the turn started with until the turn has returned, and the name of the
\* memory collection, the name in the stop sequence and the profile in the
\* prompt all come from that object, as in the handler run in one piece.
C30_TurnUsesOneCharacter ==
    turn.pc # "idle" =>
        /\ character_context = turn.character
        /\ turn.name # "" => turn.name = turn.character.name
        /\ turn.collection \notin {"", "None"} =>
               turn.collection = CollectionName(turn.character.name)
        /\ turn.stop # "" => turn.stop = turn.character.name
        /\ turn.pc \in {"provider", "store"} \/ turn.stop # "" =>
               /\ turn.profile = Profile(turn.character, environment_context)
               /\ turn.profile =
                     chat(turn.character, environment_context,
                          [message |-> "hi", history |-> <<>>], "ok",
                          [kind |-> "text", text |-> <<"HI">>], TRUE,
                          store).profile

\* A turn for Bob, loaded with no appearance, has reached its end and added
\* its output to Bob's collection while a request to load the character of
\* KaiyaStarling.json waits for the loop.
C30_Witness ==
    /\ turn.pc = "done" /\ turn.status = 200
    /\ turn.output # <<>> /\ store["Bob"] = <<turn.output>>
    /\ turn.name = "Bob" /\ turn.stop = "Bob" /\ turn.collection = "Bob"
    /\ turn.profile.appearance = "Not specified"
    /\ turn.pending # <<>>
    /\ ~turn.pending[1].inline
    /\ character_context.name = "Bob"

=============================================================================
